---- MODULE Spec2Model ----
(***************************************************************************)
(* Model of the BRO CPT application (app/bro): the XML-dict to CPT-dict    *)
(* conversion, the null-row filter, classify_cpt_file, the comparison view, *)
(* the concurrent fetch of XML payloads, the chunked downloads and step 1  *)
(* of the wizard.                                                          *)
(*                                                                         *)
(* Numbers.  A Python float is modelled as an exact rational <<n, d>> in   *)
(* lowest terms with d > 0; None is the empty tuple <<>>.  A numeral in    *)
(* the document text is [c |-> "num", m |-> mantissa, e |-> decimals],     *)
(* read by float() as m / 10^e.  Positions in sequences are 1-based: the   *)
(* Python index i is the position i + 1.                                   *)
(***************************************************************************)
EXTENDS Integers, Sequences, FiniteSets, TLC

VARIABLES
    doc,          \* the xml_dict: the tags it lacks and what CPT_O holds
    src_rows,     \* the data rows the values block of doc was written from
    pc,           \* position in classify_cpt_file / CPT.__init__
    cpt_dict,     \* outcome of convert_xml_dict_to_cpt_dict
    classify_in,  \* measurement_data handed to cpt_data_object.classify
    filter_runs,  \* calls of CPT.filter_nones_from_params_dict so far
    outcome,      \* how classify_cpt_file ended: "", "returned" or the error
    parsed_cpt,   \* measurement_data of CPT.parsed_cpt
    bro_cpt_ids,  \* argument of _async_get_xml_bytes_of_bro_cpt
    task,         \* per request: "created", "sent", "done" or "raised"
    task_url,     \* per request: the identifier its url names, "" before it is sent
    task_result,  \* per request: what async_get_cpt_object_xml returned
    task_content, \* per request: the response text it received
    completed,    \* the requests in the order they completed
    fetch_pc,     \* "idle", "gather", "returned" or "raised"
    xml_str_list, \* what the fetch returned
    xml_files,    \* the documents fetched for the selected CPTs, in selection order
    view_pc,      \* visualize_cpt_comparison: "idle", "start", "classify", "done", "failed"
    classified_cpts, \* the dicts classify_cpt_file returned so far
    failed_at,    \* position of the record whose classification raised, 0 if none
    cpts,         \* parsed_cpt of the CPT objects handed to the figure
    robertson_table, \* the table Classification.__init__ was given
    colors,       \* the components the color of each row was written from
    _method,      \* Classification._method
    _table,       \* Classification._table
    accesses,     \* reads of Classification.table so far
    table_seen,   \* what the last read of Classification.table returned
    soil_mapping, \* what the last read of Classification.soil_mapping returned
    saved_ground_water_level, \* argument of classify_cpt_file
    cpt_data_object, \* what cpt_file.parse returned, as get_water_level reads it
    ground_water_level, \* local of classify_cpt_file, then cpt_dict["ground_water_level"]
    method_result, \* what self.method() returned or raised
    policy,       \* the order filter_layers_on_thickness takes the thin layers in
    soil_layout_obj, \* the layout cpt_data_object.classify returned
    soil_layout_filtered, \* soil_layout_obj.filter_layers_on_thickness(...)
    soil_layout_filtered_in_m, \* convert_soil_layout_from_mm_to_m(soil_layout_filtered)
    classified_dict, \* the cpt_dict classify_cpt_file returns
    cls_pc,       \* position in classify_cpt_file
    cls_error,    \* the exception that left classify_cpt_file, "" if none
    cpt_ids,      \* the identifiers to download, in order
    chunk_no,     \* chunks handed to get_cpt_object_xml_async so far
    in_flight,    \* positions in cpt_ids whose request is created and not completed
    started,      \* positions in cpt_ids in the order their requests were created
    finished,     \* positions in cpt_ids whose request completed
    xml_bytes,    \* the payloads collected so far
    dl_pc,        \* position in download_selected_cpts_from_bro
    deregistered_ids, \* the identifiers whose record the registry has de-registered
    dl_error,     \* the exception that left the download, "" if none
    zipped_files, \* the archive: file name (identifier) -> payload
    geo_polygon,  \* params.step_1.geo_polygon, None when nothing is drawn
    retrieved_cpts, \* params.retrieved_cpts: the JSON text of the hidden field, None when unset
    bro_cpts,     \* the CPTs the registry holds
    step,         \* the step of the wizard that is shown
    wiz_event,    \* the handler that ran last
    wiz_error,    \* the error the handler that ran last raised, "" if none
    filtered_cpt_data, \* filter_available_cpts(...) of the last retrieval
    map_points    \* the points of the last Locations view

pipeVars == <<doc, src_rows, pc, cpt_dict, classify_in, filter_runs, outcome, parsed_cpt>>
fetchVars ==
    <<bro_cpt_ids, task, task_url, task_content, task_result, completed, fetch_pc,
      xml_str_list>>
viewVars == <<xml_files, view_pc, classified_cpts, failed_at, cpts>>
classVars ==
    <<robertson_table, colors, _method, _table, accesses, table_seen, soil_mapping,
      saved_ground_water_level, cpt_data_object, ground_water_level, method_result, policy,
      soil_layout_obj, soil_layout_filtered, soil_layout_filtered_in_m, classified_dict,
      cls_pc, cls_error>>
downloadVars ==
    <<cpt_ids, chunk_no, in_flight, started, finished, xml_bytes, dl_pc, deregistered_ids,
      dl_error, zipped_files>>
wizardVars ==
    <<geo_polygon, retrieved_cpts, bro_cpts, step, wiz_event, wiz_error, filtered_cpt_data,
      map_points>>
vars == <<pipeVars, fetchVars, viewVars, classVars, downloadVars, wizardVars>>

---------------------------------------------------------------------------
(* Rational arithmetic standing for Python float arithmetic.               *)

None == <<>>

Abs(x) == IF x < 0 THEN -x ELSE x

RECURSIVE GCD(_, _)
GCD(a, b) == IF b = 0 THEN a ELSE GCD(b, a % b)

Norm(n, d) ==
    LET g == GCD(Abs(n), Abs(d))
        s == IF d < 0 THEN -1 ELSE 1
    IN  <<(s * n) \div g, (s * d) \div g>>

RECURSIVE Pow10(_)
Pow10(e) == IF e = 0 THEN 1 ELSE 10 * Pow10(e - 1)

\* int(x): truncation toward zero
IntOf(q) == IF q[1] >= 0 THEN q[1] \div q[2] ELSE -((-q[1]) \div q[2])

RatMulInt(q, k) == Norm(q[1] * k, q[2])
RatDivInt(q, k) == Norm(q[1], q[2] * k)
RatDiv(a, b) == Norm(a[1] * b[2], a[2] * b[1])
RatLess(a, b) == a[1] * b[2] < b[1] * a[2]
RatOfInt(k) == <<k, 1>>

---------------------------------------------------------------------------
(* Document text: a string is a sequence of symbols.                       *)

Sep(ch) == [c |-> ch, m |-> 0, e |-> 0]
Numeral(mant, dec) == [c |-> "num", m |-> mant, e |-> dec]

\* float(text) of a one-numeral field
FloatOf(sym) == Norm(sym.m, Pow10(sym.e))

\* str.split(sep): the pieces between the occurrences of sep (n + 1 pieces)
RECURSIVE SplitAcc(_, _, _, _)
SplitAcc(s, sep, i, cur) ==
    IF i > Len(s) THEN <<cur>>
    ELSE IF s[i] = sep THEN <<cur>> \o SplitAcc(s, sep, i + 1, <<>>)
    ELSE SplitAcc(s, sep, i + 1, Append(cur, s[i]))

Split(s, sep) == SplitAcc(s, sep, 1, <<>>)

\* seq[:-1]
DropLast(s) == IF Len(s) = 0 THEN s ELSE SubSeq(s, 1, Len(s) - 1)

---------------------------------------------------------------------------
(* convert_xml_dict_to_cpt_dict                                            *)

DataKeys == <<"Rf", "fs", "qc", "elevation", "corrected_depth">>
MapKeys == <<"Rf", "fs", "qc", "elevation", "corrected_depth", "penetration_length">>

GEF_XML_MAPPING ==
    [Rf |-> "frictionRatio", fs |-> "localFriction", qc |-> "coneResistance",
     elevation |-> "depth", corrected_depth |-> "depth",
     penetration_length |-> "penetrationLength"]

\* A mapping is a function key -> position; NotIn: the key is not in the
\* dict, NoneIdx: the key is in the dict with the value None.
NotIn == -1
NoneIdx == 0

KeySet(keys) == {keys[i] : i \in 1..Len(keys)}

EmptyMapping == [k \in KeySet(MapKeys) |-> NotIn]

\* the flag of the parameter left untested
MapParamAnyFlag(m, i, p) ==
    [k \in KeySet(MapKeys) |-> IF p.tag = GEF_XML_MAPPING[k] THEN i ELSE m[k]]

\* the body of the loop over GEF_XML_MAPPING.items() for parameter i
MapParam(m, i, p) ==
    [k \in KeySet(MapKeys) |->
        IF p.tag = GEF_XML_MAPPING[k] /\ p.flag = TRUE THEN i ELSE m[k]]

\* for i, (tag, value) in enumerate(parameters)
RECURSIVE MapFrom(_, _, _)
MapFrom(m, params, i) ==
    IF i > Len(params) THEN m
    ELSE MapFrom(MapParam(m, i, params[i]), params, i + 1)

BuildMapping(params) == MapFrom(EmptyMapping, params, 1)

\* mapping.pop("penetration_length", None)
PenetrationLengthIndex(m) ==
    IF m["penetration_length"] = NotIn THEN NoneIdx ELSE m["penetration_length"]

\* mapping after the pop and the penetration-length fallback
FinalMapping(m) ==
    LET pli == PenetrationLengthIndex(m)
    IN  [k \in KeySet(DataKeys) |->
            IF m["elevation"] = NotIn /\ k \in {"elevation", "corrected_depth"}
            THEN pli ELSE m[k]]

WarningText == "Penetration length used as elevation as data was missing"
NoWarning == "None"

WarningMsg(m) == IF m["elevation"] = NotIn THEN WarningText ELSE NoWarning

\* token_separator, block_separator
TokenSeparator(d) == IF d.TextEncoding = <<>> THEN Sep(",") ELSE d.TextEncoding[1]
BlockSeparator(d) == IF d.TextEncoding = <<>> THEN Sep(";") ELSE d.TextEncoding[2]

\* values.split(block_separator)[:-1]
Blocks(d) == DropLast(Split(d.values, BlockSeparator(d)))

\* data_rows: every block split on the token separator
DataRows(d) ==
    LET b == Blocks(d)
    IN  [i \in 1..Len(b) |-> Split(b[i], TokenSeparator(d))]

\* float(row[col]) faults: "IndexError", "ValueError" or "" when it does not
FieldFault(row, col) ==
    IF col > Len(row) THEN "IndexError"
    ELSE IF Len(row[col]) # 1 \/ row[col][1].c # "num" THEN "ValueError"
    ELSE ""

FieldValue(row, col) == FloatOf(row[col][1])

\* sorted(rows, key=...): stable, ascending; a row goes behind every row
\* already placed whose key is not greater than its own
RECURSIVE InsertRow(_, _, _)
InsertRow(acc, row, col) ==
    IF acc = <<>> THEN <<row>>
    ELSE IF RatLess(FieldValue(row, col), FieldValue(Head(acc), col))
         THEN <<row>> \o acc
         ELSE <<Head(acc)>> \o InsertRow(Tail(acc), row, col)

RECURSIVE SortFrom(_, _, _, _)
SortFrom(acc, rows, i, col) ==
    IF i > Len(rows) THEN acc
    ELSE SortFrom(InsertRow(acc, rows[i], col), rows, i + 1, col)

\* the rows left in document order
Unsorted(rows, col) == rows

Sorted(rows, col) == SortFrom(<<>>, rows, 1, col)

Sentinel == <<-999999, 1>>

\* the branches of lines 99-110 for one field
DataPoint(key, v, elevation_offset) ==
    IF v = Sentinel THEN None
    ELSE IF key = "elevation" THEN RatOfInt(elevation_offset - IntOf(RatMulInt(v, 1000)))
    ELSE IF key = "corrected_depth" THEN RatOfInt(IntOf(RatMulInt(v, 1000)))
    ELSE IF key = "Rf" THEN RatDivInt(v, 100)
    ELSE v

\* one series after the loop over sorted_data
Series(key, m, sorted, elevation_offset) ==
    IF m[key] < 1 THEN <<>>
    ELSE [i \in 1..Len(sorted) |->
            DataPoint(key, FieldValue(sorted[i], m[key]), elevation_offset)]

Min(a, b) == IF a < b THEN a ELSE b

\* the quotient taken the other way round
DeriveRfSwapped(qc, fs) == IF qc # <<0, 1>> THEN RatDiv(qc, fs) ELSE None

\* fs / qc if qc != 0 else None, for one zipped pair
DeriveRf(qc, fs) == IF qc # <<0, 1>> THEN RatDiv(fs, qc) ELSE None

\* fs / qc raises TypeError when an operand is None
DeriveFaults(qc, fs) == qc # <<0, 1>> /\ (qc = None \/ fs = None)

DerivedRf(md) ==
    [i \in 1..Min(Len(md.qc), Len(md.fs)) |-> DeriveRf(md.qc[i], md.fs[i])]

EmptyMD == [k \in KeySet(DataKeys) |-> <<>>]
\* the cone geometry tags of the conePenetrometer node, in the order the
\* code reads them
ConeTags ==
    <<"coneSurfaceQuotient", "frictionSleeveSurfaceQuotient", "coneToFrictionSleeveDistance",
      "coneSurfaceArea", "frictionSleeveSurfaceArea">>

\* the header field each cone geometry tag is stored in
ConeField(tag) ==
    CASE tag = "coneSurfaceArea" -> "cone_tip_area"
      [] tag = "frictionSleeveSurfaceArea" -> "friction_sleeve_area"
      [] tag = "coneSurfaceQuotient" -> "surface_area_quotient_tip"
      [] tag = "frictionSleeveSurfaceQuotient" -> "surface_area_quotient_friction_sleeve"
      [] tag = "coneToFrictionSleeveDistance" -> "distance_cone_to_centre_friction_sleeve"

\* the tag of the conePenetrometer node the code reads for a geometry tag
ConeTagRead(tag) == IF tag = "frictionSleeveSurfaceQuotient" THEN "coneSurfaceQuotient" ELSE tag

NoHeaders ==
    [name |-> "", ground_level_wrt_reference |-> None, cone_tip_area |-> None,
     friction_sleeve_area |-> None, surface_area_quotient_tip |-> None,
     surface_area_quotient_friction_sleeve |-> None,
     distance_cone_to_centre_friction_sleeve |-> None]

Raise(exc, arg) ==
    [status |-> "raise", exc |-> exc, arg |-> arg, measurement_data |-> EmptyMD,
     warning_msg |-> NoWarning, headers |-> NoHeaders]

\* the first tag of path that the document lacks, or "" when it has them all
RECURSIVE FirstMissing(_, _, _)
FirstMissing(d, path, i) ==
    IF i > Len(path) THEN ""
    ELSE IF path[i] \in d.missing THEN path[i]
    ELSE FirstMissing(d, path, i + 1)

\* tags read before the rows are split, in the order the code reads them
PathBeforeRows ==
    <<"dispatchDocument", "CPT_O", "deliveredVerticalPosition", "offset",
      "conePenetrometerSurvey", "parameters", "conePenetrationTest", "cptResult",
      "encoding", "TextEncoding">>

\* tags read by the returned dict literal, in order
PathHeaders ==
    <<"broId", "researchReportDate", "verticalDatum", "localVerticalReferencePoint",
      "conePenetrometer", "conePenetrometerType", "trajectory", "predrilledDepth",
      "finalDepth", "deliveredLocation", "location", "pos">>

\* float(xml_data.conePenetrometerSurvey.conePenetrometer.<tag read>)
\* if "<tag>" in xml_data.keys() else None
ConeValue(d, tag) ==
    IF tag \in d.keys THEN FloatOf(d.conePenetrometer.value[ConeTagRead(tag)]) ELSE None

\* the first tag the geometry expressions look up in vain, "" when none
RECURSIVE ConeFault(_, _)
ConeFault(d, i) ==
    IF i > Len(ConeTags) THEN ""
    ELSE IF ConeTags[i] \in d.keys /\ "conePenetrometer" \in d.missing THEN "conePenetrometer"
    ELSE IF ConeTags[i] \in d.keys /\ ConeTagRead(ConeTags[i]) \notin d.conePenetrometer.tags
         THEN ConeTagRead(ConeTags[i])
    ELSE ConeFault(d, i + 1)

\* the first fault of float(x[col]) over rows, in order
RECURSIVE RowsFault(_, _, _)
RowsFault(rows, col, i) ==
    IF i > Len(rows) THEN ""
    ELSE IF FieldFault(rows[i], col) # "" THEN FieldFault(rows[i], col)
    ELSE RowsFault(rows, col, i + 1)

\* the first fault of the conversion loop over the mapped columns (the
\* columns are walked in the order of DataKeys; the order of mapping.items()
\* only decides which of two faulty fields is reported)
RECURSIVE KeysFault(_, _, _)
KeysFault(rows, m, j) ==
    IF j > Len(DataKeys) THEN ""
    ELSE IF m[DataKeys[j]] >= 1 /\ RowsFault(rows, m[DataKeys[j]], 1) # ""
         THEN RowsFault(rows, m[DataKeys[j]], 1)
    ELSE KeysFault(rows, m, j + 1)

\* lines 96-115: the series, with Rf derived when the Rf series is empty
MeasurementData(m, sorted, elevation_offset) ==
    LET md == [k \in KeySet(DataKeys) |-> Series(k, m, sorted, elevation_offset)]
    IN  IF md.Rf = <<>> THEN [md EXCEPT !.Rf = DerivedRf(md)] ELSE md

\* whether the derivation of line 112-115 raises
DerivationFaults(m, sorted, elevation_offset) ==
    LET md == [k \in KeySet(DataKeys) |-> Series(k, m, sorted, elevation_offset)]
    IN  /\ md.Rf = <<>>
        /\ \E i \in 1..Min(Len(md.qc), Len(md.fs)) : DeriveFaults(md.qc[i], md.fs[i])

\* the exception the lambda of line 90 raises when the elevation column is None
SortKeyFault == "TypeError"

\* try ... except KeyError as e: raise UserError(f"Missing {e} in XML data")
ExceptKeyError(exc) ==
    IF exc = "KeyError" THEN Raise("UserError", "Missing in XML data")
    ELSE Raise(exc, "elevation")

convert_xml_dict_to_cpt_dict(d) ==
    LET before == FirstMissing(d, PathBeforeRows, 1)
    IN
    IF before # "" THEN Raise("AttributeError", before)
    ELSE IF "values" \in d.missing THEN Raise("KeyError", "values")
    ELSE
    LET elevation_offset == IntOf(RatMulInt(FloatOf(d.offset), 1000))
        m == FinalMapping(BuildMapping(d.parameters))
        rows == DataRows(d)
    IN
    IF rows # <<>> /\ m["elevation"] = NoneIdx THEN ExceptKeyError(SortKeyFault)
    ELSE IF m["elevation"] >= 1 /\ RowsFault(rows, m["elevation"], 1) # ""
         THEN ExceptKeyError(RowsFault(rows, m["elevation"], 1))
    ELSE
    LET sorted == IF m["elevation"] >= 1 THEN Sorted(rows, m["elevation"]) ELSE rows
    IN
    IF KeysFault(sorted, m, 1) # "" THEN Raise(KeysFault(sorted, m, 1), "row")
    ELSE IF DerivationFaults(m, sorted, elevation_offset)
         THEN Raise("TypeError", "unsupported operand type(s) for /")
    ELSE IF ConeFault(d, 1) # "" THEN Raise("AttributeError", ConeFault(d, 1))
    ELSE
    LET after == FirstMissing(d, PathHeaders, 1)
    IN
    IF after # "" THEN Raise("AttributeError", after)
    ELSE
    [status |-> "ok", exc |-> "", arg |-> "",
     measurement_data |-> MeasurementData(m, sorted, elevation_offset),
     warning_msg |-> WarningMsg(BuildMapping(d.parameters)),
     headers |-> [name |-> d.broId,
                  cone_tip_area |-> ConeValue(d, "coneSurfaceArea"),
                  friction_sleeve_area |-> ConeValue(d, "frictionSleeveSurfaceArea"),
                  surface_area_quotient_tip |-> ConeValue(d, "coneSurfaceQuotient"),
                  surface_area_quotient_friction_sleeve |->
                      ConeValue(d, "frictionSleeveSurfaceQuotient"),
                  distance_cone_to_centre_friction_sleeve |->
                      ConeValue(d, "coneToFrictionSleeveDistance"),
                  ground_level_wrt_reference |-> RatMulInt(FloatOf(d.offset), 1000)]]

---------------------------------------------------------------------------
(* CPT.filter_nones_from_params_dict                                       *)

\* zip(*measurement_data.values()): as many rows as the shortest series
ZipLen(md) ==
    Min(Len(md.Rf), Min(Len(md.fs), Min(Len(md.qc),
        Min(Len(md.elevation), Len(md.corrected_depth)))))

\* if None in items
RowHasNone(md, i) == \E k \in KeySet(DataKeys) : md[k][i] = None

rows_to_be_removed(md) == {i \in 1..ZipLen(md) : RowHasNone(md, i)}

\* del series[row] for every row to be removed
RECURSIVE DeleteRows(_, _, _)
DeleteRows(s, removed, i) ==
    IF i > Len(s) THEN <<>>
    ELSE IF i \in removed THEN DeleteRows(s, removed, i + 1)
    ELSE <<s[i]>> \o DeleteRows(s, removed, i + 1)

filter_nones_from_params_dict(md) ==
    [k \in KeySet(DataKeys) |-> DeleteRows(md[k], rows_to_be_removed(md), 1)]

---------------------------------------------------------------------------
(* Documents                                                               *)

MaxRows == 2

S == Numeral(-999999, 0)

\* one data row: the value measured for each physical quantity
Row(qc, fs, depth, pl, rf) ==
    [coneResistance |-> qc, localFriction |-> fs, depth |-> depth,
     penetrationLength |-> pl, frictionRatio |-> rf, elapsedTime |-> S]

RowPalette ==
    { Row(Numeral(10, 0), Numeral(25, 1), Numeral(5, 1), Numeral(5, 1), Numeral(20, 1)),
      Row(Numeral(20, 0), Numeral(30, 1), Numeral(10, 1), Numeral(10, 1), Numeral(15, 1)),
      Row(Numeral(0, 0), Numeral(25, 1), Numeral(15, 1), Numeral(15, 1), Numeral(20, 1)),
      Row(S, Numeral(25, 1), Numeral(20, 1), Numeral(20, 1), Numeral(20, 1)),
      Row(Numeral(10, 0), S, Numeral(25, 2), Numeral(25, 2), S),
      Row(Numeral(20, 0), Numeral(25, 1), S, Numeral(75, 2), Numeral(20, 1)),
      Row(Numeral(10, 0), Numeral(30, 1), Numeral(10005, 4), Numeral(10005, 4),
          Numeral(15, 1)) }

P(tag, flag) == [tag |-> tag, flag |-> flag]

\* parameter sequences of the survey node
Layouts ==
    { <<P("coneResistance", TRUE), P("localFriction", TRUE), P("depth", TRUE)>>,
      <<P("frictionRatio", TRUE), P("coneResistance", TRUE), P("localFriction", TRUE),
        P("depth", TRUE)>>,
      <<P("penetrationLength", TRUE), P("coneResistance", TRUE), P("localFriction", TRUE),
        P("depth", FALSE)>>,
      <<P("coneResistance", TRUE), P("localFriction", TRUE), P("penetrationLength", FALSE)>>,
      <<P("coneResistance", TRUE), P("depth", TRUE), P("localFriction", FALSE)>>,
      <<P("penetrationLength", TRUE), P("depth", TRUE), P("coneResistance", TRUE),
        P("localFriction", TRUE)>>,
      <<P("elapsedTime", TRUE), P("localFriction", TRUE), P("coneResistance", TRUE),
        P("penetrationLength", TRUE), P("frictionRatio", TRUE)>> }

Offsets == {Numeral(0, 0), Numeral(-12345, 4)}

\* TextEncoding: a childless element (None), or one naming its separators
Encodings == {<<>>, <<Sep(":"), Sep("|")>>}

AllTags == KeySet(PathBeforeRows) \cup {"values"} \cup KeySet(PathHeaders)

RowSeqs == UNION {[1..n -> RowPalette] : n \in 0..MaxRows}

\* the fields of one row as the registry writes them: an inactive column
\* holds the missing-value sentinel
RowFields(row, params) ==
    [j \in 1..Len(params) |-> IF params[j].flag THEN row[params[j].tag] ELSE S]

RECURSIVE JoinFields(_, _, _)
JoinFields(fields, tok, j) ==
    IF j > Len(fields) THEN <<>>
    ELSE (IF j > 1 THEN <<tok>> ELSE <<>>) \o <<fields[j]>> \o JoinFields(fields, tok, j + 1)

\* the values block: rows joined by the block separator, which also ends
\* the block when trailing
RECURSIVE JoinRows(_, _, _, _, _, _)
JoinRows(rows, params, tok, blk, trailing, i) ==
    IF i > Len(rows) THEN <<>>
    ELSE JoinFields(RowFields(rows[i], params), tok, 1)
         \o (IF i < Len(rows) \/ trailing THEN <<blk>> ELSE <<>>)
         \o JoinRows(rows, params, tok, blk, trailing, i + 1)

\* the values a conePenetrometer node gives its geometry tags
ConeValues ==
    [tag \in KeySet(ConeTags) |->
        CASE tag = "coneSurfaceArea" -> Numeral(1000, 0)
          [] tag = "frictionSleeveSurfaceArea" -> Numeral(15000, 0)
          [] tag = "coneSurfaceQuotient" -> Numeral(75, 2)
          [] tag = "frictionSleeveSurfaceQuotient" -> Numeral(1, 0)
          [] tag = "coneToFrictionSleeveDistance" -> Numeral(100, 0)]

\* conePenetrometer nodes: with no geometry tag, with all of them, with the
\* two areas only
Cones ==
    {[tags |-> t, value |-> ConeValues] :
        t \in {{}, KeySet(ConeTags), {"coneSurfaceArea", "frictionSleeveSurfaceArea"}}}

\* the geometry tags found among the children of CPT_O itself: none in a
\* document of the registry
ConeKeysOfCPT_O == {{}, KeySet(ConeTags), {"frictionSleeveSurfaceQuotient"}}

MakeDoc(rows, params, enc, off, trailing, missing) ==
    [missing |-> missing, offset |-> off, parameters |-> params, TextEncoding |-> enc,
     values |-> JoinRows(rows, params,
                         IF enc = <<>> THEN Sep(",") ELSE enc[1],
                         IF enc = <<>> THEN Sep(";") ELSE enc[2], trailing, 1),
     broId |-> "CPT000000000001",
     conePenetrometer |-> [tags |-> {}, value |-> ConeValues], keys |-> {}]

\* the rows of the block as fields of text, in document order
SourceRows(rows, params) ==
    [i \in 1..Len(rows) |->
        [j \in 1..Len(params) |-> <<RowFields(rows[i], params)[j]>>]]

---------------------------------------------------------------------------
(* Classification.classify_cpt_file, then CPT.__init__                     *)

FetchIdle ==
    /\ bro_cpt_ids = <<>> /\ task = <<>> /\ task_url = <<>> /\ task_result = <<>>
    /\ task_content = <<>>
    /\ completed = <<>> /\ fetch_pc = "idle" /\ xml_str_list = <<>>

ViewIdle ==
    /\ xml_files = <<>> /\ view_pc = "idle" /\ classified_cpts = <<>> /\ failed_at = 0
    /\ cpts = <<>>

NoMethod == [status |-> "", exc |-> "", arg |-> "", table |-> <<>>]

\* no Classification object is in use
ClassIdle ==
    /\ robertson_table = <<>> /\ colors = <<>> /\ _method = "robertson" /\ _table = <<>>
    /\ accesses = 0
    /\ table_seen = <<>> /\ soil_mapping = <<>>
    /\ saved_ground_water_level = None
    /\ cpt_data_object = [has_water_level |-> FALSE, water_level |-> None,
                          ground_level_wrt_reference |-> <<0, 1>>]
    /\ ground_water_level = None /\ method_result = NoMethod /\ policy = "first"
    /\ soil_layout_obj = <<>> /\ soil_layout_filtered = <<>>
    /\ soil_layout_filtered_in_m = <<>> /\ classified_dict = <<>> /\ cls_pc = "idle"
    /\ cls_error = ""

\* no download is running
DownloadIdle ==
    /\ cpt_ids = <<>> /\ chunk_no = 0 /\ in_flight = {} /\ started = <<>> /\ finished = {}
    /\ xml_bytes = <<>> /\ dl_pc = "idle"
    /\ deregistered_ids = {} /\ dl_error = "" /\ zipped_files = <<>>

\* the wizard is not in use
WizardIdle ==
    /\ geo_polygon = None /\ retrieved_cpts = None /\ bro_cpts = {} /\ step = 0
    /\ wiz_event = "" /\ wiz_error = "" /\ filtered_cpt_data = <<>> /\ map_points = <<>>

Init ==
    /\ FetchIdle
    /\ ViewIdle
    /\ ClassIdle
    /\ DownloadIdle
    /\ WizardIdle
    /\ \E rows \in RowSeqs, params \in Layouts, enc \in Encodings, off \in Offsets,
          trailing \in BOOLEAN :
          \E missing \in {{}} \cup
                 (IF Len(rows) <= 1 /\ trailing /\ enc = <<>> /\ off = Numeral(0, 0)
                  THEN {{t} : t \in AllTags} ELSE {}) :
          \E cone \in Cones, keys \in ConeKeysOfCPT_O :
             /\ (cone.tags # {} \/ keys # {}) =>
                   Len(rows) <= 1 /\ trailing /\ enc = <<>> /\ off = Numeral(0, 0)
             /\ doc = [MakeDoc(rows, params, enc, off, trailing, missing)
                         EXCEPT !.conePenetrometer = cone, !.keys = keys]
             /\ src_rows = SourceRows(rows, params)
    /\ pc = "start"
    /\ cpt_dict = Raise("", "")
    /\ classify_in = EmptyMD
    /\ filter_runs = 0
    /\ outcome = ""
    /\ parsed_cpt = EmptyMD

\* cpt_file.parse(return_gef_data_obj=True); an error of the conversion is
\* none of the two caught kinds and leaves classify_cpt_file as it is
Parse ==
    /\ pc = "start"
    /\ cpt_dict' = convert_xml_dict_to_cpt_dict(doc)
    /\ IF cpt_dict'.status = "ok"
       THEN pc' = "parsed" /\ outcome' = outcome
       ELSE pc' = "failed" /\ outcome' = cpt_dict'.exc
    /\ UNCHANGED <<doc, src_rows, classify_in, filter_runs, parsed_cpt, fetchVars,
                   viewVars, classVars, downloadVars, wizardVars>>

\* cpt_data_object.classify(method=self.method(), ...) returns a layout
ClassifyOk ==
    /\ pc = "parsed"
    /\ classify_in' = cpt_dict.measurement_data
    /\ pc' = "classified"
    /\ UNCHANGED <<doc, src_rows, cpt_dict, filter_runs, outcome, parsed_cpt, fetchVars,
                   viewVars, classVars, downloadVars, wizardVars>>

\* except GEFParsingException / GEFClassificationError: raise UserError
ClassifyRaises ==
    /\ pc = "parsed"
    /\ classify_in' = cpt_dict.measurement_data
    /\ \E e \in {"GEFParsingException", "GEFClassificationError"} :
          outcome' = IF e = "GEFParsingException" THEN "UserError: CPT Parsing"
                     ELSE "UserError: CPT Classification"
    /\ pc' = "failed"
    /\ UNCHANGED <<doc, src_rows, cpt_dict, filter_runs, parsed_cpt, fetchVars, viewVars,
                   classVars, downloadVars, wizardVars>>

\* lines 361-377: the layout is filtered and the dict returned
Return ==
    /\ pc = "classified"
    /\ pc' = "returned"
    /\ outcome' = "returned"
    /\ UNCHANGED <<doc, src_rows, cpt_dict, classify_in, filter_runs, parsed_cpt,
                   fetchVars, viewVars, classVars, downloadVars, wizardVars>>

\* CPT(cpt_params=classified_cpt): parsed_cpt is built from the filtered dict
BuildCPT ==
    /\ pc = "returned"
    /\ parsed_cpt' = filter_nones_from_params_dict(cpt_dict.measurement_data)
    /\ filter_runs' = filter_runs + 1
    /\ pc' = "built"
    /\ UNCHANGED <<doc, src_rows, cpt_dict, classify_in, outcome, fetchVars, viewVars,
                   classVars, downloadVars, wizardVars>>

Next == Parse \/ ClassifyOk \/ ClassifyRaises \/ Return \/ BuildCPT

Spec == Init /\ [][Next]_vars

---------------------------------------------------------------------------
(* Properties of the conversion and of the filter                          *)

\* the document carries an active parameter with this label
HasActive(d, label) ==
    \E i \in 1..Len(d.parameters) : d.parameters[i].tag = label /\ d.parameters[i].flag

Converted == pc # "start"
ConvertedOk == pc # "start" /\ cpt_dict.status = "ok"

\* row i has a value that is not None in each of the five series
Complete(md, i) == \A k \in KeySet(DataKeys) : i <= Len(md[k]) /\ md[k][i] # None

\* the series k restricted to the complete rows
KeepComplete(md, k) == DeleteRows(md[k], {i \in 1..Len(md[k]) : ~Complete(md, i)}, 1)

HasNone(md) == \E k \in KeySet(DataKeys) : \E i \in 1..Len(md[k]) : md[k][i] = None

\* the values that are not None do not increase along the index
NonIncreasing(s) ==
    \A i \in 1..Len(s) : \A j \in 1..Len(s) :
        (i < j /\ s[i] # None /\ s[j] # None) => ~RatLess(s[i], s[j])

\* C1: after normalization and the null-row filter the retained rows are
\* exactly the rows with no null in any of the five series, at most N of
\* them, in the sorted order.
C1_RetainedRowsAreTheCompleteRows ==
    pc = "built" =>
        LET md == cpt_dict.measurement_data
        IN  /\ \A k \in KeySet(DataKeys) : parsed_cpt[k] = KeepComplete(md, k)
            /\ \A k \in KeySet(DataKeys) : Len(parsed_cpt[k]) <= Len(src_rows)
            /\ ~HasNone(parsed_cpt)
            /\ NonIncreasing(parsed_cpt.elevation)

\* C2: the series handed to cpt_data_object.classify hold no row with a
\* null component, the null-row filter having run before the classification.
C2_NoNullRowIsClassified ==
    pc \in {"classified", "returned", "built"} => ~HasNone(classify_in)

\* C3: a document with neither an active depth column nor an active
\* penetration-length column makes the conversion fail with the UserError
\* "Missing ... in XML data", whatever its number of rows.
C3_NoDepthColumnIsDataFieldMissing ==
    (Converted /\ doc.missing = {} /\ ~HasActive(doc, "depth")
        /\ ~HasActive(doc, "penetrationLength"))
    => (cpt_dict.status = "raise" /\ cpt_dict.exc = "UserError")

\* position of the last active parameter with this label
LastActive(d, label) ==
    CHOOSE i \in 1..Len(d.parameters) :
        /\ d.parameters[i].tag = label /\ d.parameters[i].flag
        /\ \A j \in (i + 1)..Len(d.parameters) :
              ~(d.parameters[j].tag = label /\ d.parameters[j].flag)

\* the raw numbers of one column, as a set
ColumnValues(d, col) == {FieldValue(src_rows[i], col) : i \in 1..Len(src_rows)}

\* C4: a document with no active elevation column but an active
\* penetration-length column is parsed, both depth series come from the
\* penetration-length column and the warning is non-empty; with an active
\* elevation column the warning is None.
C4_PenetrationLengthFallback ==
    (Converted /\ doc.missing = {})
    => /\ (~HasActive(doc, "depth") /\ HasActive(doc, "penetrationLength"))
          => /\ cpt_dict.status = "ok"
             /\ cpt_dict.warning_msg # NoWarning
             /\ cpt_dict.warning_msg # ""
             /\ LET md == cpt_dict.measurement_data
                    pl == LastActive(doc, "penetrationLength")
                    off == IntOf(RatMulInt(FloatOf(doc.offset), 1000))
                IN  /\ Len(md.elevation) = Len(md.corrected_depth)
                    /\ \A i \in 1..Len(md.elevation) :
                          \E v \in ColumnValues(doc, pl) :
                             IF v = Sentinel
                             THEN md.elevation[i] = None /\ md.corrected_depth[i] = None
                             ELSE /\ md.corrected_depth[i] = <<IntOf(RatMulInt(v, 1000)), 1>>
                                  /\ md.elevation[i] = <<off - IntOf(RatMulInt(v, 1000)), 1>>
       /\ (HasActive(doc, "depth") /\ cpt_dict.status = "ok")
          => cpt_dict.warning_msg = NoWarning

\* the rows of the document in the order the conversion walks them
SortedRows(d) ==
    LET m == FinalMapping(BuildMapping(d.parameters))
    IN  IF m["elevation"] >= 1 THEN Sorted(DataRows(d), m["elevation"]) ELSE DataRows(d)

\* q = a / b, for numbers a, b # 0 and any q
IsQuotient(q, a, b) == q # None /\ q[1] * b[1] * a[2] = a[1] * q[2] * b[2]

\* C5: without a friction-ratio column, with cone-resistance and local-friction
\* columns, the friction ratio of a row is local friction / cone resistance
\* where the cone resistance is not 0 and None where it is 0; with a
\* friction-ratio column the ratio is the column's value / 100, never the
\* derived one.
C5_DerivedFrictionRatio ==
    ConvertedOk =>
        LET md == cpt_dict.measurement_data
        IN  /\ (~HasActive(doc, "frictionRatio") /\ HasActive(doc, "coneResistance")
                  /\ HasActive(doc, "localFriction"))
               => /\ Len(md.Rf) = Len(md.qc)
                  /\ \A i \in 1..Len(md.qc) :
                        IF md.qc[i] = <<0, 1>> THEN md.Rf[i] = None
                        ELSE /\ md.qc[i] # None
                             /\ md.fs[i] # None
                             /\ IsQuotient(md.Rf[i], md.fs[i], md.qc[i])
            /\ HasActive(doc, "frictionRatio")
               => LET col == LastActive(doc, "frictionRatio")
                      rows == SortedRows(doc)
                  IN  /\ Len(md.Rf) = Len(rows)
                      /\ \A i \in 1..Len(rows) :
                            IF FieldValue(rows[i], col) = Sentinel THEN md.Rf[i] = None
                            ELSE IsQuotient(md.Rf[i], FieldValue(rows[i], col), <<100, 1>>)

\* a conversion that derived a ratio for a row with cone resistance 0 and for
\* a row with another cone resistance
C5_Witness ==
    /\ ConvertedOk
    /\ ~HasActive(doc, "frictionRatio")
    /\ HasActive(doc, "coneResistance") /\ HasActive(doc, "localFriction")
    /\ LET md == cpt_dict.measurement_data
       IN  /\ \E i \in 1..Len(md.qc) : md.qc[i] = <<0, 1>> /\ md.Rf[i] = None
           /\ \E i \in 1..Len(md.qc) : md.qc[i] # <<0, 1>> /\ md.Rf[i] # None

\* the header tags named required
RequiredTags ==
    {"broId", "researchReportDate", "deliveredVerticalPosition", "offset", "verticalDatum",
     "localVerticalReferencePoint", "conePenetrometerSurvey", "conePenetrometer",
     "trajectory", "cptResult", "deliveredLocation", "pos"}

\* C6: a document lacking a required header tag makes parsing fail with a
\* UserError whose message names the tag; no other error kind escapes.
C6_MissingTagIsDataFieldMissing ==
    (Converted /\ \E t \in RequiredTags : doc.missing = {t})
    => /\ cpt_dict.status = "raise"
       /\ cpt_dict.exc = "UserError"
       /\ cpt_dict.arg \in doc.missing
       /\ outcome \in {"UserError"}

\* C9: every data row of the values block is among the parsed rows, in
\* document order, split into its fields; what is discarded is the empty
\* piece behind a trailing block separator.
C9_EveryDataRowIsParsed ==
    (Converted /\ doc.missing = {}) => DataRows(doc) = src_rows

\* the text of a block of rows, each row ended by the block separator
RECURSIVE JoinSplitFields(_, _, _)
JoinSplitFields(fields, tok, j) ==
    IF j > Len(fields) THEN <<>>
    ELSE (IF j > 1 THEN <<tok>> ELSE <<>>) \o fields[j] \o JoinSplitFields(fields, tok, j + 1)

RECURSIVE JoinSplitRows(_, _, _, _)
JoinSplitRows(rows, tok, blk, i) ==
    IF i > Len(rows) THEN <<>>
    ELSE JoinSplitFields(rows[i], tok, 1) \o <<blk>> \o JoinSplitRows(rows, tok, blk, i + 1)

\* the document with its rows replaced
WithRows(d, rows) ==
    [d EXCEPT !.values = JoinSplitRows(rows, TokenSeparator(d), BlockSeparator(d), 1)]

\* the column the rows are sorted on
SortColumn(d) == FinalMapping(BuildMapping(d.parameters))["elevation"]

DistinctKeys(rows, col) ==
    \A i \in 1..Len(rows) : \A j \in 1..Len(rows) :
        i # j => FieldValue(rows[i], col) # FieldValue(rows[j], col)

NonDecreasing(s) ==
    \A i \in 1..Len(s) : \A j \in 1..Len(s) :
        (i < j /\ s[i] # None /\ s[j] # None) => ~RatLess(s[j], s[i])

---------------------------------------------------------------------------
(* _async_get_xml_bytes_of_bro_cpt: one request per identifier, gathered   *)

MaxIds == 3

Ids == {"CPT000000000001", "CPT000000000002"}

IdLists == UNION {[1..n -> Ids] : n \in 0..MaxIds}

\* a response text: the object it describes, and whether the text holds
\* "deregistrationTime"
Content(id, deregistered) == <<id, deregistered>>

\* if "deregistrationTime" not in content: return content (else None)
ReturnedContent(content) == IF ~content[2] THEN content ELSE None

\* the results in the order the requests completed
GatherAsCompleted(results, order) == [i \in 1..Len(order) |-> results[order[i]]]

\* await asyncio.gather(*tasks): the results in the order of the awaitables
Gather(results, order) == results

PipelineIdle ==
    /\ doc = MakeDoc(<<>>, <<>>, <<>>, Numeral(0, 0), TRUE, {})
    /\ src_rows = <<>>
    /\ pc = "idle"
    /\ cpt_dict = Raise("", "")
    /\ classify_in = EmptyMD
    /\ filter_runs = 0
    /\ outcome = ""
    /\ parsed_cpt = EmptyMD

InitFetch ==
    /\ PipelineIdle
    /\ ViewIdle
    /\ ClassIdle
    /\ DownloadIdle
    /\ WizardIdle
    /\ bro_cpt_ids \in IdLists
    /\ task = [i \in 1..Len(bro_cpt_ids) |-> "created"]
    /\ task_url = [i \in 1..Len(bro_cpt_ids) |-> ""]
    /\ task_content = [i \in 1..Len(bro_cpt_ids) |-> None]
    /\ task_result = [i \in 1..Len(bro_cpt_ids) |-> None]
    /\ completed = <<>>
    /\ fetch_pc = "gather"
    /\ xml_str_list = <<>>

\* session.get(url, headers=headers_cpt) of request i
Send(i) ==
    /\ fetch_pc = "gather"
    /\ task[i] = "created"
    /\ task' = [task EXCEPT ![i] = "sent"]
    /\ task_url' = [task_url EXCEPT ![i] = bro_cpt_ids[i]]
    /\ UNCHANGED <<bro_cpt_ids, task_content, task_result, completed, fetch_pc,
                   xml_str_list, pipeVars, viewVars, classVars, downloadVars, wizardVars>>

\* the response of request i arrives and the coroutine returns
Respond(i) ==
    /\ fetch_pc = "gather"
    /\ task[i] = "sent"
    /\ \E deregistered \in BOOLEAN :
          /\ task_content' = [task_content EXCEPT ![i] = Content(task_url[i], deregistered)]
          /\ task_result' = [task_result EXCEPT ![i] = ReturnedContent(task_content'[i])]
    /\ task' = [task EXCEPT ![i] = "done"]
    /\ completed' = Append(completed, i)
    /\ UNCHANGED <<bro_cpt_ids, task_url, fetch_pc, xml_str_list, pipeVars, viewVars,
                   classVars, downloadVars, wizardVars>>

\* response.raise_for_status() raises in request i
RespondError(i) ==
    /\ fetch_pc = "gather"
    /\ task[i] = "sent"
    /\ task' = [task EXCEPT ![i] = "raised"]
    /\ UNCHANGED <<bro_cpt_ids, task_url, task_content, task_result, completed, fetch_pc,
                   xml_str_list, pipeVars, viewVars, classVars, downloadVars, wizardVars>>

\* every request returned: the gathered list is returned
GatherReturns ==
    /\ fetch_pc = "gather"
    /\ \A i \in 1..Len(task) : task[i] = "done"
    /\ xml_str_list' = Gather(task_result, completed)
    /\ fetch_pc' = "returned"
    /\ UNCHANGED <<bro_cpt_ids, task, task_url, task_content, task_result, completed,
                   pipeVars, viewVars, classVars, downloadVars, wizardVars>>

\* return_exceptions=False: the exception of a request leaves the fetch
GatherRaises ==
    /\ fetch_pc = "gather"
    /\ \E i \in 1..Len(task) : task[i] = "raised"
    /\ fetch_pc' = "raised"
    /\ UNCHANGED <<bro_cpt_ids, task, task_url, task_content, task_result, completed,
                   xml_str_list, pipeVars, viewVars, classVars, downloadVars, wizardVars>>

NextFetch ==
    \/ \E i \in 1..Len(task) : Send(i)
    \/ \E i \in 1..Len(task) : Respond(i)
    \/ \E i \in 1..Len(task) : RespondError(i)
    \/ GatherReturns
    \/ GatherRaises

SpecFetch == InitFetch /\ [][NextFetch]_vars

\* C8: the fetch returns a list as long as the list of identifiers whose i-th
\* element is the payload served for the i-th identifier, or None when that
\* response holds a de-registration marker, in whatever order the requests
\* complete.
C8_FetchKeepsOrder ==
    fetch_pc = "returned" =>
        /\ Len(xml_str_list) = Len(bro_cpt_ids)
        /\ \A i \in 1..Len(bro_cpt_ids) :
              /\ task_content[i] # None
              /\ task_content[i][1] = bro_cpt_ids[i]
              /\ xml_str_list[i] = IF task_content[i][2] THEN None ELSE task_content[i]

\* a returned fetch of different identifiers whose requests completed out of
\* order, one of them for a de-registered record
C8_Witness ==
    /\ fetch_pc = "returned"
    /\ Len(bro_cpt_ids) >= 2
    /\ bro_cpt_ids[1] # bro_cpt_ids[2]
    /\ completed[1] # 1
    /\ \E i \in 1..Len(xml_str_list) : xml_str_list[i] = None
    /\ \E i \in 1..Len(xml_str_list) : xml_str_list[i] # None

---------------------------------------------------------------------------
(* Controller.visualize_cpt_comparison                                     *)

MaxBatch == 3
MaxCompared == 10

GoodRow == Row(Numeral(10, 0), Numeral(25, 1), Numeral(5, 1), Numeral(5, 1), Numeral(20, 1))

StandardLayout == <<P("coneResistance", TRUE), P("localFriction", TRUE), P("depth", TRUE)>>

\* the documents of the records that can be selected: a complete one, one
\* without broId, one without a depth or penetration-length column
BatchDocs ==
    { MakeDoc(<<GoodRow>>, StandardLayout, <<>>, Numeral(0, 0), TRUE, {}),
      MakeDoc(<<GoodRow>>, StandardLayout, <<>>, Numeral(0, 0), TRUE, {"broId"}),
      MakeDoc(<<GoodRow>>, <<P("coneResistance", TRUE), P("localFriction", TRUE)>>, <<>>,
              Numeral(0, 0), TRUE, {}) }

Batches == UNION {[1..n -> BatchDocs] : n \in 0..MaxBatch}

InitView ==
    /\ PipelineIdle
    /\ FetchIdle
    /\ ClassIdle
    /\ DownloadIdle
    /\ WizardIdle
    /\ xml_files \in Batches
    /\ view_pc = "start"
    /\ classified_cpts = <<>>
    /\ failed_at = 0
    /\ cpts = <<>>

\* lines 140-145: no selection, or more than ten, is a UserError
ViewStart ==
    /\ view_pc = "start"
    /\ view_pc' = IF xml_files = <<>> \/ Len(xml_files) > MaxCompared
                  THEN "failed" ELSE "classify"
    /\ UNCHANGED <<xml_files, classified_cpts, failed_at, cpts, pipeVars, fetchVars,
                   classVars, downloadVars, wizardVars>>

\* the next element of the comprehension of line 153: classify_cpt_file returns
ViewClassifyReturns ==
    /\ view_pc = "classify"
    /\ Len(classified_cpts) < Len(xml_files)
    /\ LET r == convert_xml_dict_to_cpt_dict(xml_files[Len(classified_cpts) + 1])
       IN  /\ r.status = "ok"
           /\ classified_cpts' = Append(classified_cpts, r)
    /\ UNCHANGED <<xml_files, view_pc, failed_at, cpts, pipeVars, fetchVars,
                   classVars, downloadVars, wizardVars>>

\* classify_cpt_file raises, in the conversion or in the classification:
\* the exception leaves the comprehension and the view
ViewClassifyRaises ==
    /\ view_pc = "classify"
    /\ Len(classified_cpts) < Len(xml_files)
    /\ view_pc' = "failed"
    /\ failed_at' = Len(classified_cpts) + 1
    /\ UNCHANGED <<xml_files, classified_cpts, cpts, pipeVars, fetchVars,
                   classVars, downloadVars, wizardVars>>

\* lines 154-157: a CPT per classified dict, then the figure
ViewFigure ==
    /\ view_pc = "classify"
    /\ Len(classified_cpts) = Len(xml_files)
    /\ cpts' = [i \in 1..Len(classified_cpts) |->
                   filter_nones_from_params_dict(classified_cpts[i].measurement_data)]
    /\ view_pc' = "done"
    /\ UNCHANGED <<xml_files, classified_cpts, failed_at, pipeVars, fetchVars,
                   classVars, downloadVars, wizardVars>>

NextView == ViewStart \/ ViewClassifyReturns \/ ViewClassifyRaises \/ ViewFigure

SpecView == InitView /\ [][NextView]_vars

\* C7: when the classification of one record of the batch fails, every other
\* record is still classified and its result produced.
C7_FailureIsIsolated ==
    (view_pc = "failed" /\ failed_at >= 1) =>
        \A j \in 1..Len(xml_files) :
            j # failed_at => (j <= Len(classified_cpts) /\ j <= Len(cpts))

--------------------------------------------------------------------------------------------------------------------------------------------
(* Layer bounds.  The bounds of a soil layer are Python floats and the     *)
(* unit conversions divide and multiply them, so they are modelled as IEEE *)
(* doubles: [s |-> sign, m |-> significand, e |-> exponent of its last     *)
(* bit], the value being s * m * 2^e.  The significand has 53 bits and is  *)
(* held as digits of 15 bits, the most significant first; zero has the     *)
(* sign 0 and no digits.  Every operation rounds to nearest, ties to even. *)

Precision == 53
LimbBits == 15
LimbBase == 32768

Zeros(n) == [i \in 1..n |-> 0]

RECURSIVE Pow2(_)
Pow2(t) == IF t = 0 THEN 1 ELSE 2 * Pow2(t - 1)

RECURSIVE BitLen(_)
BitLen(x) == IF x = 0 THEN 0 ELSE 1 + BitLen(x \div 2)

\* m without its leading zero digits
StripLimbs(m) ==
    IF \A i \in 1..Len(m) : m[i] = 0 THEN <<>>
    ELSE SubSeq(m, CHOOSE i \in 1..Len(m) : m[i] # 0 /\ \A j \in 1..(i - 1) : m[j] = 0,
                Len(m))

\* the number of bits of m, which has no leading zero digit
BitLength(m) == LimbBits * (Len(m) - 1) + BitLen(m[1])

\* digits 1..i of m times k, plus carry: k and carry below LimbBase
RECURSIVE MulLimbs(_, _, _, _)
MulLimbs(m, k, i, carry) ==
    IF i = 0 THEN (IF carry = 0 THEN <<>> ELSE <<carry>>)
    ELSE Append(MulLimbs(m, k, i - 1, (m[i] * k + carry) \div LimbBase),
                (m[i] * k + carry) % LimbBase)

\* long division by k of the digits of m from i on, entered with the
\* remainder r: the digits of the quotient, followed by the remainder
RECURSIVE DivLimbs(_, _, _, _)
DivLimbs(m, k, i, r) ==
    IF i > Len(m) THEN <<r>>
    ELSE <<(r * LimbBase + m[i]) \div k>>
         \o DivLimbs(m, k, i + 1, (r * LimbBase + m[i]) % k)

\* m * 2^t
ShiftLeft(m, t) ==
    MulLimbs(m, Pow2(t % LimbBits), Len(m), 0) \o Zeros(t \div LimbBits)

\* m \div 2^t, and whether a bit that is 1 was shifted out
ShiftRight(m, t) ==
    LET kept == SubSeq(m, 1, Len(m) - (t \div LimbBits))
        d == DivLimbs(kept, Pow2(t % LimbBits), 1, 0)
    IN  [q |-> DropLast(d),
         sticky |-> \/ d[Len(d)] # 0
                    \/ \E i \in (Len(kept) + 1)..Len(m) : m[i] # 0]

FloatZero == [s |-> 0, m |-> <<>>, e |-> 0]

\* the double nearest to s * (m + a fraction below 1) * 2^e, where sticky
\* tells that the fraction is not 0
RoundToDouble(s, m0, e, sticky) ==
    LET m == StripLimbs(m0)
    IN
    IF m = <<>> THEN FloatZero
    ELSE IF BitLength(m) <= Precision
         THEN [s |-> s, m |-> StripLimbs(ShiftLeft(m, Precision - BitLength(m))),
               e |-> e - (Precision - BitLength(m))]
    ELSE
    LET drop == BitLength(m) - Precision
        guarded == ShiftRight(m, drop - 1)
        guard == guarded.q[Len(guarded.q)] % 2
        q == StripLimbs(ShiftRight(guarded.q, 1).q)
        up == guard = 1 /\ (sticky \/ guarded.sticky \/ q[Len(q)] % 2 = 1)
        r == IF up THEN StripLimbs(MulLimbs(q, 1, Len(q), 1)) ELSE q
    IN  IF BitLength(r) > Precision
        THEN [s |-> s, m |-> StripLimbs(ShiftRight(r, 1).q), e |-> e + drop + 1]
        ELSE [s |-> s, m |-> r, e |-> e + drop]

\* float(x) of an int
FloatOfInt(x) ==
    RoundToDouble(IF x < 0 THEN -1 ELSE 1,
                  <<Abs(x) \div (LimbBase * LimbBase), (Abs(x) \div LimbBase) % LimbBase,
                    Abs(x) % LimbBase>>, 0, FALSE)

\* the int an integral double holds
IntValueOf(f) ==
    IF f.s = 0 THEN 0
    ELSE LET q == <<0, 0, 0>> \o ShiftRight(f.m, -f.e).q
             n == Len(q)
         IN  f.s * ((q[n - 2] * LimbBase + q[n - 1]) * LimbBase + q[n])

\* f * k for an int k, 0 < k < LimbBase
FloatMulInt(f, k) ==
    IF f.s = 0 THEN FloatZero
    ELSE RoundToDouble(f.s, MulLimbs(f.m, k, Len(f.m), 0), f.e, FALSE)

\* f / k for an int k, 0 < k < LimbBase
FloatDivInt(f, k) ==
    IF f.s = 0 THEN FloatZero
    ELSE LET d == DivLimbs(f.m \o Zeros(4), k, 1, 0)
         IN  RoundToDouble(f.s, DropLast(d), f.e - 4 * LimbBits, d[Len(d)] # 0)

---------------------------------------------------------------------------
(* Soil layouts: SoilLayout.filter_layers_on_thickness and the unit        *)
(* conversions.  A layout is the sequence of its layers from the top; a    *)
(* layer is [soil, top_of_layer, bottom_of_layer], its bounds doubles.     *)

DEFAULT_MIN_LAYER_THICKNESS == 200

Layer(soil, top, bottom) ==
    [soil |-> soil, top_of_layer |-> top, bottom_of_layer |-> bottom]

\* thickness of a layer with integral bounds
Thickness(layer) == IntValueOf(layer.top_of_layer) - IntValueOf(layer.bottom_of_layer)

\* layer i of L is taken up by its neighbour j, which keeps its soil
MergeLayers(L, i, j) ==
    LET upper == Min(i, j)
    IN  SubSeq(L, 1, upper - 1)
        \o <<Layer(L[j].soil, L[upper].top_of_layer, L[upper + 1].bottom_of_layer)>>
        \o SubSeq(L, upper + 2, Len(L))

\* the neighbour a thin layer is merged into: the thicker one, the only one
\* at either end of the layout
Neighbour(L, i, pol) ==
    IF i = 1 THEN 2
    ELSE IF i = Len(L) THEN i - 1
    ELSE IF Thickness(L[i - 1]) > Thickness(L[i + 1]) THEN i - 1
    ELSE IF Thickness(L[i - 1]) < Thickness(L[i + 1]) THEN i + 1
    ELSE IF pol = "first" THEN i - 1 ELSE i + 1

\* thin layers are merged into a neighbour until none is left or one layer
\* remains; pol is the end of the layout the thin layers are taken from
RECURSIVE FilterThin(_, _, _)
FilterThin(L, t, pol) ==
    LET thin == {i \in 1..Len(L) : Thickness(L[i]) < t}
    IN  IF Len(L) <= 1 \/ thin = {} THEN L
        ELSE LET i == IF pol = "first"
                      THEN CHOOSE x \in thin : \A y \in thin : x <= y
                      ELSE CHOOSE x \in thin : \A y \in thin : x >= y
             IN  FilterThin(MergeLayers(L, i, Neighbour(L, i, pol)), t, pol)

\* adjacent layers of the same soil are merged, whatever their thickness
RECURSIVE MergeSame(_)
MergeSame(L) ==
    LET same == {i \in 1..(Len(L) - 1) : L[i].soil = L[i + 1].soil}
    IN  IF same = {} THEN L
        ELSE MergeSame(MergeLayers(L, (CHOOSE x \in same : \A y \in same : x <= y) + 1,
                                   CHOOSE x \in same : \A y \in same : x <= y))

\* the layers of the same soil merged before the thin layers are filtered
filter_merging_first(L, t, merge, pol) ==
    FilterThin(IF merge THEN MergeSame(L) ELSE L, t, pol)

filter_layers_on_thickness(L, t, merge, pol) ==
    IF merge THEN MergeSame(FilterThin(L, t, pol)) ELSE FilterThin(L, t, pol)

\* soil_layout.serialize(): a dict holding the list of layer dicts
serialize(L) == [layers |-> L]

\* SoilLayout.from_dict(serialization_dict)
from_dict(d) == d.layers

convert_soil_layout_from_mm_to_m(soil_layout) ==
    LET serialization_dict == serialize(soil_layout)
    IN  from_dict([layers |->
            [i \in 1..Len(serialization_dict.layers) |->
                [serialization_dict.layers[i] EXCEPT
                    !.top_of_layer = FloatDivInt(@, 1000),
                    !.bottom_of_layer = FloatDivInt(@, 1000)]]])

convert_soil_layout_from_m_to_mm(soil_layout) ==
    LET serialization_dict == serialize(soil_layout)
    IN  from_dict([layers |->
            [i \in 1..Len(serialization_dict.layers) |->
                [serialization_dict.layers[i] EXCEPT
                    !.top_of_layer = FloatMulInt(@, 1000),
                    !.bottom_of_layer = FloatMulInt(@, 1000)]]])

\* convert_soil_layout_to_input_table_field
convert_soil_layout_to_input_table_field(soil_layout) ==
    [i \in 1..Len(soil_layout) |->
        [name |-> soil_layout[i].soil, top_of_layer |-> soil_layout[i].top_of_layer]]

MaxLayers == 3

SoilNames == {"zand", "klei"}
Thicknesses == {150, 401, 1001}

\* the layers below the level top (mm), given their soils and thicknesses
RECURSIVE LayersBelow(_, _, _)
LayersBelow(top, soils, thick) ==
    IF soils = <<>> THEN <<>>
    ELSE <<Layer(Head(soils), FloatOfInt(top), FloatOfInt(top - Head(thick)))>>
         \o LayersBelow(top - Head(thick), Tail(soils), Tail(thick))

\* the layouts a classification returns: contiguous layers with integral
\* bounds in mm, from the surface at 0 down
SoilLayouts ==
    UNION {{LayersBelow(0, soils, thick) :
                soils \in [1..n -> SoilNames], thick \in [1..n -> Thicknesses]} :
           n \in 0..MaxLayers}

---------------------------------------------------------------------------
(* Classification: the table, its colors, method() and soil_mapping.  A    *)
(* color is [kind, text, rgb]: a str holds its text, a tuple and a Color   *)
(* hold their components.                                                  *)

ColorStr(text) == [kind |-> "str", text |-> text, rgb |-> <<>>]
ColorTuple(rgb) == [kind |-> "tuple", text |-> <<>>, rgb |-> rgb]

\* Color(*rgb): three components, or a TypeError
Color(rgb) ==
    IF Len(rgb) = 3 THEN [kind |-> "Color", text |-> <<>>, rgb |-> rgb]
    ELSE [kind |-> "TypeError", text |-> <<>>, rgb |-> <<>>]

\* text.strip(): without the whitespace at either end
StripText(text) ==
    LET inked == {i \in 1..Len(text) : text[i] # Sep(" ")}
    IN  IF inked = {} THEN <<>>
        ELSE SubSeq(text, CHOOSE i \in inked : \A j \in inked : i <= j,
                    CHOOSE i \in inked : \A j \in inked : i >= j)

\* int(element) faults unless the element is one integer numeral, with
\* whitespace around it or not
IntFault(element) ==
    LET t == StripText(element)
    IN  Len(t) # 1 \/ t[1].c # "num" \/ t[1].e # 0

IntOfText(element) == StripText(element)[1].m

convert_to_color(rgb) ==
    IF rgb.kind \in {"tuple", "Color"} THEN Color(rgb.rgb)
    ELSE LET elements == Split(StripText(rgb.text), Sep(","))
         IN  IF \E i \in 1..Len(elements) : IntFault(elements[i])
             THEN [kind |-> "ValueError", text |-> <<>>, rgb |-> <<>>]
             ELSE Color([i \in 1..Len(elements) |-> IntOfText(elements[i])])

\* the rows handed back as they are
_update_color_string_skipped(classification_table) == classification_table

_update_color_string(classification_table) ==
    [i \in 1..Len(classification_table) |->
        IF classification_table[i].color.kind # "Color"
        THEN [classification_table[i] EXCEPT !.color = convert_to_color(@)]
        ELSE classification_table[i]]

\* self.method() whatever self._method is
method_always_robertson(name, table) ==
    [status |-> "ok", exc |-> "", arg |-> "RobertsonMethod", table |-> table]

\* self.method(), given self._method and what self.table returned
method(name, table) ==
    IF name = "robertson"
    THEN [status |-> "ok", exc |-> "", arg |-> "RobertsonMethod", table |-> table]
    ELSE [status |-> "raise", exc |-> "UserError",
          arg |-> "has not yet been implemented", table |-> <<>>]

\* one entry of soil_mapping for a row of self.table
SoilOf(row) ==
    [ui_name |-> row.ui_name, name |-> row.name, color |-> convert_to_color(row.color)]

\* the text of a color: "r,g,b", or " r, g, b " when spaced
ColorText(rgb, spaced) ==
    IF spaced
    THEN <<Sep(" "), Numeral(rgb[1], 0), Sep(","), Sep(" "), Numeral(rgb[2], 0), Sep(","),
           Sep(" "), Numeral(rgb[3], 0), Sep(" ")>>
    ELSE <<Numeral(rgb[1], 0), Sep(","), Numeral(rgb[2], 0), Sep(","), Numeral(rgb[3], 0)>>

\* the forms a table holds a color in
ColorForms == {"spaced", "plain", "tuple", "Color"}

ColorIn(rgb, form) ==
    IF form = "spaced" THEN ColorStr(ColorText(rgb, TRUE))
    ELSE IF form = "plain" THEN ColorStr(ColorText(rgb, FALSE))
    ELSE IF form = "tuple" THEN ColorTuple(rgb)
    ELSE Color(rgb)

TableRow(name, color) == [name |-> name, ui_name |-> name, color |-> color]

MaxTableRows == 2
MaxAccesses == 2

RGBs == {<<200, 25, 0>>, <<0, 128, 255>>}
MethodNames == {"robertson", "table"}
RowNames == <<"zand", "klei", "veen", "leem">>

\* Classification(robertson_table): _table is a copy of the argument.
\* __init__ sets _method to "robertson" and nothing in the application sets
\* it again; it is the attribute method() and soil_mapping test, so the
\* object is taken with either name in it.
InitTable ==
    /\ PipelineIdle
    /\ FetchIdle
    /\ ViewIdle
    /\ DownloadIdle
    /\ WizardIdle
    /\ \E n \in 1..MaxTableRows :
          \E rgbs \in [1..n -> RGBs], forms \in [1..n -> ColorForms] :
             /\ colors = rgbs
             /\ robertson_table =
                   [i \in 1..n |-> TableRow(RowNames[i], ColorIn(rgbs[i], forms[i]))]
    /\ _method \in MethodNames
    /\ _table = robertson_table
    /\ accesses = 0
    /\ table_seen = <<>>
    /\ soil_mapping = <<>>
    /\ method_result = NoMethod
    /\ saved_ground_water_level = None
    /\ cpt_data_object = [has_water_level |-> FALSE, water_level |-> None,
                          ground_level_wrt_reference |-> <<0, 1>>]
    /\ ground_water_level = None
    /\ policy = "first"
    /\ soil_layout_obj = <<>>
    /\ soil_layout_filtered = <<>>
    /\ soil_layout_filtered_in_m = <<>>
    /\ classified_dict = <<>>
    /\ cls_pc = "idle"
    /\ cls_error = ""

fileVars ==
    <<saved_ground_water_level, cpt_data_object, ground_water_level, policy, soil_layout_obj,
      soil_layout_filtered, soil_layout_filtered_in_m, classified_dict, cls_pc, cls_error>>

\* a caller reads Classification.table
Table ==
    /\ accesses < MaxAccesses
    /\ _table' = _update_color_string(_table)
    /\ table_seen' = _table'
    /\ accesses' = accesses + 1
    /\ UNCHANGED <<robertson_table, colors, _method, soil_mapping, method_result, fileVars,
                   pipeVars, fetchVars, viewVars, downloadVars, wizardVars>>

\* a caller calls Classification.method(), which reads self.table when the
\* method is robertson
Method ==
    /\ accesses < MaxAccesses
    /\ _table' = IF _method = "robertson" THEN _update_color_string(_table) ELSE _table
    /\ table_seen' = IF _method = "robertson" THEN _table' ELSE table_seen
    /\ method_result' = method(_method, _table')
    /\ accesses' = accesses + 1
    /\ UNCHANGED <<robertson_table, colors, _method, soil_mapping, fileVars,
                   pipeVars, fetchVars, viewVars, downloadVars, wizardVars>>

\* a caller reads Classification.soil_mapping
SoilMapping ==
    /\ accesses < MaxAccesses
    /\ _table' = _update_color_string(_table)
    /\ table_seen' = _table'
    /\ soil_mapping' = [i \in 1..Len(_table') |-> SoilOf(_table'[i])]
    /\ accesses' = accesses + 1
    /\ UNCHANGED <<robertson_table, colors, _method, method_result, fileVars,
                   pipeVars, fetchVars, viewVars, downloadVars, wizardVars>>

NextTable == Table \/ Method \/ SoilMapping

SpecTable == InitTable /\ [][NextTable]_vars

---------------------------------------------------------------------------
(* Classification.classify_cpt_file, from the parsed object to the dict    *)

RatSub(a, b) == Norm(a[1] * b[2] - b[1] * a[2], a[2] * b[2])

get_water_level(obj) ==
    IF obj.has_water_level THEN obj.water_level
    ELSE RatSub(RatDivInt(obj.ground_level_wrt_reference, 1000), RatOfInt(1))

\* a level that is 0 taken for no level
WaterLevelIfTruthy(saved, obj) ==
    IF saved # None /\ saved # <<0, 1>> THEN saved ELSE get_water_level(obj)

\* lines 347-351: the level of the user, or the level of the object
WaterLevelFor(saved, obj) ==
    IF saved # None THEN saved ELSE get_water_level(obj)

\* the levels a caller passes: none, 0, 2.5 m below the reference
SavedLevels == {None, <<0, 1>>, <<-5, 2>>}

\* the objects cpt_file.parse returns, as get_water_level reads them: with
\* the ground level of the document, with a water level of their own or not
DataObjects ==
    {[has_water_level |-> h, water_level |-> IF h THEN <<-3, 2>> ELSE None,
      ground_level_wrt_reference |-> RatMulInt(FloatOf(off), 1000)] :
        h \in BOOLEAN, off \in Offsets}

DefaultTable ==
    <<TableRow("zand", ColorIn(<<200, 25, 0>>, "spaced")),
      TableRow("klei", ColorIn(<<0, 128, 255>>, "plain"))>>

InitClassify ==
    /\ PipelineIdle
    /\ FetchIdle
    /\ ViewIdle
    /\ DownloadIdle
    /\ WizardIdle
    /\ robertson_table = DefaultTable
    /\ colors = <<<<200, 25, 0>>, <<0, 128, 255>>>>
    /\ _method \in MethodNames
    /\ _table = robertson_table
    /\ accesses = 0
    /\ table_seen = <<>>
    /\ soil_mapping = <<>>
    /\ method_result = NoMethod
    /\ saved_ground_water_level \in SavedLevels
    /\ cpt_data_object \in DataObjects
    /\ ground_water_level = None
    /\ policy \in {"first", "last"}
    /\ soil_layout_obj = <<>>
    /\ soil_layout_filtered = <<>>
    /\ soil_layout_filtered_in_m = <<>>
    /\ classified_dict = <<>>
    /\ cls_pc = "start"
    /\ cls_error = ""

tableVars == <<robertson_table, colors, _method, _table, accesses, table_seen, soil_mapping>>

\* lines 345-351: the file is parsed and the ground water level settled
ClsParse ==
    /\ cls_pc = "start"
    /\ ground_water_level' = WaterLevelFor(saved_ground_water_level, cpt_data_object)
    /\ cls_pc' = "parsed"
    /\ UNCHANGED <<tableVars, method_result, saved_ground_water_level, cpt_data_object,
                   policy, soil_layout_obj, soil_layout_filtered, soil_layout_filtered_in_m,
                   classified_dict, cls_error, pipeVars, fetchVars, viewVars, downloadVars,
                   wizardVars>>

\* cpt_file.parse raises: a GEFParsingException becomes a UserError, any
\* other exception leaves as it is
ClsParseRaises ==
    /\ cls_pc = "start"
    /\ \E e \in {"GEFParsingException", "TypeError"} :
          cls_error' = IF e = "GEFParsingException" THEN "UserError: CPT Parsing" ELSE e
    /\ cls_pc' = "failed"
    /\ UNCHANGED <<tableVars, method_result, saved_ground_water_level, cpt_data_object,
                   ground_water_level, policy, soil_layout_obj, soil_layout_filtered,
                   soil_layout_filtered_in_m, classified_dict, pipeVars, fetchVars,
                   viewVars, downloadVars, wizardVars>>

\* line 354: self.method(); its UserError is none of the caught kinds
ClsMethod ==
    /\ cls_pc = "parsed"
    /\ _table' = IF _method = "robertson" THEN _update_color_string(_table) ELSE _table
    /\ table_seen' = IF _method = "robertson" THEN _table' ELSE table_seen
    /\ method_result' = method(_method, _table')
    /\ IF method_result'.status = "ok"
       THEN cls_pc' = "method" /\ cls_error' = cls_error
       ELSE cls_pc' = "failed" /\ cls_error' = "UserError: has not yet been implemented"
    /\ UNCHANGED <<robertson_table, colors, _method, accesses, soil_mapping,
                   saved_ground_water_level, cpt_data_object, ground_water_level, policy,
                   soil_layout_obj, soil_layout_filtered, soil_layout_filtered_in_m,
                   classified_dict, pipeVars, fetchVars, viewVars, downloadVars,
                   wizardVars>>

\* line 354: cpt_data_object.classify returns a layout
ClsClassify ==
    /\ cls_pc = "method"
    /\ soil_layout_obj' \in SoilLayouts \ {<<>>}
    /\ cls_pc' = "classified"
    /\ UNCHANGED <<tableVars, method_result, saved_ground_water_level, cpt_data_object,
                   ground_water_level, policy, soil_layout_filtered,
                   soil_layout_filtered_in_m, classified_dict, cls_error, pipeVars,
                   fetchVars, viewVars, downloadVars, wizardVars>>

\* lines 356-359: classify raises
ClsClassifyRaises ==
    /\ cls_pc = "method"
    /\ \E e \in {"GEFParsingException", "GEFClassificationError"} :
          cls_error' = IF e = "GEFParsingException" THEN "UserError: CPT Parsing"
                       ELSE "UserError: CPT Classification"
    /\ cls_pc' = "failed"
    /\ UNCHANGED <<tableVars, method_result, saved_ground_water_level, cpt_data_object,
                   ground_water_level, policy, soil_layout_obj, soil_layout_filtered,
                   soil_layout_filtered_in_m, classified_dict, pipeVars, fetchVars,
                   viewVars, downloadVars, wizardVars>>

\* lines 362-365
ClsFilter ==
    /\ cls_pc = "classified"
    /\ soil_layout_filtered' =
          filter_layers_on_thickness(soil_layout_obj, DEFAULT_MIN_LAYER_THICKNESS, TRUE,
                                     policy)
    /\ cls_pc' = "filtered"
    /\ UNCHANGED <<tableVars, method_result, saved_ground_water_level, cpt_data_object,
                   ground_water_level, policy, soil_layout_obj, soil_layout_filtered_in_m,
                   classified_dict, cls_error, pipeVars, fetchVars, viewVars, downloadVars,
                   wizardVars>>

\* lines 366-377: the layout in m and the dict that is returned
ClsReturn ==
    /\ cls_pc = "filtered"
    /\ soil_layout_filtered_in_m' = convert_soil_layout_from_mm_to_m(soil_layout_filtered)
    /\ classified_dict' =
          [soil_layout_original |-> serialize(soil_layout_obj),
           bottom_of_soil_layout_user |->
               FloatDivInt(soil_layout_obj[Len(soil_layout_obj)].bottom_of_layer, 1000),
           soil_layout |-> convert_soil_layout_to_input_table_field(soil_layout_filtered_in_m'),
           ground_water_level |-> ground_water_level,
           min_layer_thickness |-> DEFAULT_MIN_LAYER_THICKNESS]
    /\ cls_pc' = "returned"
    /\ UNCHANGED <<tableVars, method_result, saved_ground_water_level, cpt_data_object,
                   ground_water_level, policy, soil_layout_obj, soil_layout_filtered,
                   cls_error, pipeVars, fetchVars, viewVars, downloadVars, wizardVars>>

NextClassify ==
    \/ ClsParse
    \/ ClsParseRaises
    \/ ClsMethod
    \/ ClsClassify
    \/ ClsClassifyRaises
    \/ ClsFilter
    \/ ClsReturn

SpecClassify == InitClassify /\ [][NextClassify]_vars

---------------------------------------------------------------------------
(* Properties of the layouts                                               *)

Thresholds == {100, DEFAULT_MIN_LAYER_THICKNESS, 500, 2000}

\* C11: the thickness filter with the merge of adjacent layers of the same
\* soil is idempotent: applied to its own output, for the threshold of the
\* program and for any other, it returns a layout equal to that output
\* (the same layers, bounds and soils).
C11_FilterIsIdempotent ==
    cls_pc \in {"filtered", "returned"} =>
        /\ filter_layers_on_thickness(soil_layout_filtered, DEFAULT_MIN_LAYER_THICKNESS,
                                      TRUE, policy) = soil_layout_filtered
        /\ \A t \in Thresholds :
              LET once == filter_layers_on_thickness(soil_layout_obj, t, TRUE, policy)
              IN  filter_layers_on_thickness(once, t, TRUE, policy) = once

\* a layout of three layers with a thin one that the filter left with two
C11_Witness ==
    /\ cls_pc = "filtered"
    /\ Len(soil_layout_obj) = 3
    /\ \E i \in 1..3 : Thickness(soil_layout_obj[i]) < DEFAULT_MIN_LAYER_THICKNESS
    /\ Len(soil_layout_filtered) = 2

\* C12: for a layout with integral bounds in mm, converting to m, back to mm
\* and to m again equals converting to m once, converting to m and back
\* yields the original bounds, and the conversion leaves the layout it was
\* given as it was.
C12_ConversionRoundTrips ==
    cls_pc \in {"filtered", "returned"} =>
        LET in_m == convert_soil_layout_from_mm_to_m(soil_layout_filtered)
        IN  /\ convert_soil_layout_from_mm_to_m(convert_soil_layout_from_m_to_mm(in_m)) = in_m
            /\ convert_soil_layout_from_m_to_mm(in_m) = soil_layout_filtered
            /\ cls_pc = "returned" =>
                  /\ soil_layout_filtered_in_m = in_m
                  /\ soil_layout_filtered =
                        filter_layers_on_thickness(soil_layout_obj,
                            DEFAULT_MIN_LAYER_THICKNESS, TRUE, policy)

---------------------------------------------------------------------------
(* Properties of the Classification object and of classify_cpt_file        *)

\* the table with every color as the Color of the components it was written from
NormalizedTable ==
    [i \in 1..Len(robertson_table) |->
        [robertson_table[i] EXCEPT
            !.color = [kind |-> "Color", text |-> <<>>, rgb |-> colors[i]]]]

\* C13: for a table whose colors are strings of three comma-separated
\* integers or triples, every read of Classification.table, the first and
\* the later ones, returns the rows with the color as the Color of the same
\* three components; method() and soil_mapping see no string either.
C13_TableColorsAreNormalized ==
    /\ table_seen # <<>> => table_seen = NormalizedTable
    /\ method_result.status = "ok" => method_result.table = NormalizedTable
    /\ soil_mapping # <<>> =>
          /\ Len(soil_mapping) = Len(robertson_table)
          /\ \A i \in 1..Len(soil_mapping) :
                soil_mapping[i].color = [kind |-> "Color", text |-> <<>>, rgb |-> colors[i]]

\* a table holding a string color, read twice, the second time by soil_mapping
C13_Witness ==
    /\ accesses >= 2
    /\ \E i \in 1..Len(robertson_table) : robertson_table[i].color.kind = "str"
    /\ table_seen # <<>>
    /\ soil_mapping # <<>>

\* (w + 1) * 1000 = g, for numbers w and g
IsMetreBelow(w, g) == w # None /\ (w[1] + w[2]) * 1000 * g[2] = g[1] * w[2]

\* C14: the ground water level classify_cpt_file returns is the level passed
\* in whenever one is passed, the level 0 included; without one it is the
\* water level of the parsed object if that has one, and else its ground
\* level in m (ground_level_wrt_reference / 1000) minus 1.
C14_GroundWaterLevel ==
    cls_pc = "returned" =>
        LET gwl == classified_dict.ground_water_level
        IN  IF saved_ground_water_level # None THEN gwl = saved_ground_water_level
            ELSE IF cpt_data_object.has_water_level THEN gwl = cpt_data_object.water_level
            ELSE IsMetreBelow(gwl, cpt_data_object.ground_level_wrt_reference)

\* a classification that was passed the level 0 for an object with a ground
\* level other than 1 m
C14_Witness ==
    /\ cls_pc = "returned"
    /\ saved_ground_water_level = <<0, 1>>
    /\ ~cpt_data_object.has_water_level
    /\ cpt_data_object.ground_level_wrt_reference # <<1000, 1>>
    /\ classified_dict.ground_water_level = <<0, 1>>

\* C15: with a method name other than "robertson", method() raises the
\* UserError "... has not yet been implemented"; it returns the Robertson
\* method for no other name than "robertson".
C15_UnknownMethodIsRefused ==
    method_result.status # "" =>
        /\ _method # "robertson" =>
              /\ method_result.status = "raise"
              /\ method_result.exc = "UserError"
              /\ method_result.arg = "has not yet been implemented"
        /\ method_result.arg = "RobertsonMethod" => _method = "robertson"

\* method() was called on an object with another method name
C15_Witness ==
    /\ _method # "robertson"
    /\ method_result.status = "raise"

---------------------------------------------------------------------------
(* Properties of the series and of the column mapping                      *)

EqualLengths(md) == \A k \in KeySet(DataKeys) : Len(md[k]) = Len(md.elevation)

\* C16: for a document that is parsed without error the five series have
\* the same length, before and after filter_nones_from_params_dict, also
\* when the friction-ratio, local-friction or cone-resistance column is not
\* mapped.
C16_SeriesHaveEqualLength ==
    /\ ConvertedOk => EqualLengths(cpt_dict.measurement_data)
    /\ pc = "built" => EqualLengths(parsed_cpt)

\* the outcome of a conversion whose derivation of Rf raised
DerivationRaised ==
    /\ cpt_dict.status = "raise"
    /\ cpt_dict.exc = "TypeError"
    /\ cpt_dict.arg = "unsupported operand type(s) for /"

\* C17: for a document without a friction-ratio column the derivation of
\* the friction ratio never faults, whatever the rows hold (a cone
\* resistance of 0, a cone resistance or local friction that is the
\* sentinel), and gives a number or None for each row.
C17_DerivationNeverFaults ==
    (Converted /\ doc.missing = {} /\ ~HasActive(doc, "frictionRatio"))
    => /\ ~DerivationRaised
       /\ cpt_dict.status = "ok" =>
             \A i \in 1..Len(cpt_dict.measurement_data.Rf) :
                \/ cpt_dict.measurement_data.Rf[i] = None
                \/ Len(cpt_dict.measurement_data.Rf[i]) = 2

\* parameter i of the document is an active one with the label of key k
Matches(d, k, i) ==
    d.parameters[i].tag = GEF_XML_MAPPING[k] /\ d.parameters[i].flag = TRUE

\* C18: the mapping built from the parameters holds an internal name
\* exactly when a parameter has its label and a true flag, at the position
\* of that parameter; elevation and corrected_depth share the position of
\* an active depth; a parameter with a false flag or another tag maps
\* nothing, so that an inactive depth leads to the penetration-length
\* fallback and a column that is not active gives no series.
C18_MappingOfActiveParameters ==
    (Converted /\ doc.missing = {}) =>
        LET m == BuildMapping(doc.parameters)
        IN  /\ \A k \in KeySet(MapKeys) :
                  IF \E i \in 1..Len(doc.parameters) : Matches(doc, k, i)
                  THEN m[k] >= 1 /\ m[k] <= Len(doc.parameters) /\ Matches(doc, k, m[k])
                  ELSE m[k] = NotIn
            /\ m["elevation"] = m["corrected_depth"]
            /\ cpt_dict.status = "ok" =>
                  /\ cpt_dict.warning_msg = WarningText <=> ~HasActive(doc, "depth")
                  /\ DataRows(doc) # <<>> =>
                        /\ cpt_dict.measurement_data.qc # <<>>
                              <=> HasActive(doc, "coneResistance")
                        /\ cpt_dict.measurement_data.fs # <<>>
                              <=> HasActive(doc, "localFriction")

\* a converted document whose depth parameter is there with a false flag
\* and whose penetration length is active
C18_Witness ==
    /\ ConvertedOk
    /\ DataRows(doc) # <<>>
    /\ \E i \in 1..Len(doc.parameters) :
          doc.parameters[i].tag = "depth" /\ ~doc.parameters[i].flag
    /\ HasActive(doc, "penetrationLength")
    /\ cpt_dict.warning_msg = WarningText

\* t is q truncated toward zero
IsTrunc(t, q) ==
    IF q[1] >= 0 THEN t * q[2] <= q[1] /\ q[1] < (t + 1) * q[2]
    ELSE (t - 1) * q[2] < q[1] /\ q[1] <= t * q[2]

\* v * 1000 truncated toward zero, for the values of the documents
TruncOfThousandfold(v) == CHOOSE t \in -3000..3000 : IsTrunc(t, <<v[1] * 1000, v[2]>>)

\* C19: for every row and every mapped field, a value of -999999 gives None
\* for that field and leaves the other fields of the row converted; any
\* other value gives elevation = int(offset * 1000) - int(value * 1000),
\* corrected_depth = int(value * 1000), Rf = value / 100, and fs and qc the
\* value itself.
C19_FieldConversion ==
    (Converted /\ doc.missing = {} /\ SortColumn(doc) >= 1) =>
        /\ cpt_dict.status = "ok"
        /\ LET md == cpt_dict.measurement_data
               m == FinalMapping(BuildMapping(doc.parameters))
               rows == SortedRows(doc)
               offset == TruncOfThousandfold(FloatOf(doc.offset))
           IN  \A k \in KeySet(DataKeys) :
                  m[k] >= 1 =>
                     /\ Len(md[k]) = Len(rows)
                     /\ \A i \in 1..Len(rows) :
                           LET v == FieldValue(rows[i], m[k])
                           IN  IF v = Sentinel THEN md[k][i] = None
                               ELSE IF k = "elevation"
                                    THEN md[k][i] = <<offset - TruncOfThousandfold(v), 1>>
                               ELSE IF k = "corrected_depth"
                                    THEN md[k][i] = <<TruncOfThousandfold(v), 1>>
                               ELSE IF k = "Rf" THEN IsQuotient(md[k][i], v, <<100, 1>>)
                               ELSE md[k][i] = v


---------------------------------------------------------------------------
(* Controller.download_selected_cpts_from_bro / download_all_cpts_from_bro *)

MAX_AMOUNT_OF_CPTS == 15

MaxDownload == 16

\* a splitter that yields the whole list as one chunk
splitter_in_one_chunk(l, chunk_size) == IF l = <<>> THEN <<>> ELSE <<l>>

\* for i in range(0, len(l), chunk_size): yield l[i : i + chunk_size]
splitter(l, chunk_size) ==
    [k \in 1..((Len(l) + chunk_size - 1) \div chunk_size) |->
        SubSeq(l, (k - 1) * chunk_size + 1,
               IF k * chunk_size < Len(l) THEN k * chunk_size ELSE Len(l))]

\* the chunks the loop of the download iterates over
Chunks == splitter(cpt_ids, MAX_AMOUNT_OF_CPTS)

\* the records of a selection the registry has de-registered: none, the
\* first or the last
Deregistrations(ids) ==
    {{}} \cup (IF ids = <<>> THEN {} ELSE {{ids[1]}, {ids[Len(ids)]}})

\* the identifiers of a selection are distinct; identifier i stands at
\* position i of the list
InitDownload ==
    /\ PipelineIdle
    /\ FetchIdle
    /\ ViewIdle
    /\ ClassIdle
    /\ WizardIdle
    /\ cpt_ids \in {[i \in 1..n |-> i] : n \in 0..MaxDownload}
    /\ deregistered_ids \in Deregistrations(cpt_ids)
    /\ chunk_no = 0
    /\ in_flight = {}
    /\ started = <<>>
    /\ finished = {}
    /\ xml_bytes = <<>>
    /\ dl_pc = "loop"
    /\ dl_error = ""
    /\ zipped_files = <<>>

\* the loop takes the next chunk: get_cpt_object_xml_async(chunk) creates one
\* request per identifier of the chunk and awaits them together
StartChunk ==
    /\ dl_pc = "loop"
    /\ chunk_no < Len(Chunks)
    /\ chunk_no' = chunk_no + 1
    /\ in_flight' = {Chunks[chunk_no'][j] : j \in 1..Len(Chunks[chunk_no'])}
    /\ started' = started \o Chunks[chunk_no']
    /\ dl_pc' = "gather"
    /\ UNCHANGED <<cpt_ids, finished, xml_bytes, deregistered_ids, dl_error, zipped_files,
                   pipeVars, fetchVars, viewVars, classVars, wizardVars>>

\* the response of the request for identifier id arrives
RequestCompletes(id) ==
    /\ dl_pc = "gather"
    /\ id \in in_flight
    /\ in_flight' = in_flight \ {id}
    /\ finished' = finished \cup {id}
    /\ UNCHANGED <<cpt_ids, chunk_no, started, xml_bytes, dl_pc, deregistered_ids, dl_error,
                   zipped_files, pipeVars, fetchVars, viewVars, classVars, wizardVars>>

\* response.raise_for_status() raises in the request for identifier id:
\* gather(return_exceptions=False) raises, asyncio.run cancels the requests
\* that are left and the exception leaves the download
RequestRaises(id) ==
    /\ dl_pc = "gather"
    /\ id \in in_flight
    /\ in_flight' = {}
    /\ dl_pc' = "failed"
    /\ dl_error' = "ClientResponseError"
    /\ UNCHANGED <<cpt_ids, chunk_no, started, finished, xml_bytes, deregistered_ids,
                   zipped_files, pipeVars, fetchVars, viewVars, classVars, wizardVars>>

\* what get_cpt_object_xml_async(chunk) returns: per identifier the text of
\* its response, None for a de-registered record
XmlStrs(chunk) ==
    [j \in 1..Len(chunk) |->
        ReturnedContent(Content(chunk[j], chunk[j] \in deregistered_ids))]

\* xml_str.encode("utf-8")
encode(xml_str) == <<"utf-8", xml_str>>

\* every request of the chunk returned a text:
\* xml_bytes += [xml_str.encode("utf-8") for xml_str in ...]
ChunkReturns ==
    /\ dl_pc = "gather"
    /\ in_flight = {}
    /\ \A j \in 1..Len(Chunks[chunk_no]) : XmlStrs(Chunks[chunk_no])[j] # None
    /\ xml_bytes' = xml_bytes \o
          [j \in 1..Len(Chunks[chunk_no]) |-> encode(XmlStrs(Chunks[chunk_no])[j])]
    /\ dl_pc' = "loop"
    /\ UNCHANGED <<cpt_ids, chunk_no, in_flight, started, finished, deregistered_ids,
                   dl_error, zipped_files, pipeVars, fetchVars, viewVars, classVars,
                   wizardVars>>

\* a request of the chunk returned None (a de-registered record):
\* None.encode raises AttributeError
ChunkEncodeRaises ==
    /\ dl_pc = "gather"
    /\ in_flight = {}
    /\ \E j \in 1..Len(Chunks[chunk_no]) : XmlStrs(Chunks[chunk_no])[j] = None
    /\ dl_pc' = "failed"
    /\ dl_error' = "AttributeError"
    /\ UNCHANGED <<cpt_ids, chunk_no, in_flight, started, finished, xml_bytes,
                   deregistered_ids, zipped_files, pipeVars, fetchVars, viewVars,
                   classVars, wizardVars>>

\* for cpt_id, xml in zip(cpt_ids, xml_bytes): zipped_files[f"{cpt_id}.xml"] = ...
\* (zip stops at the shorter list; a later entry of the same name replaces
\* an earlier one)
Zip(ids, payloads) ==
    LET n == Min(Len(ids), Len(payloads))
    IN  [id \in {ids[i] : i \in 1..n} |->
            payloads[CHOOSE i \in 1..n : ids[i] = id /\ \A k \in (i + 1)..n : ids[k] # id]]

\* the loop is exhausted: the files are zipped and the result is returned
DownloadReturns ==
    /\ dl_pc = "loop"
    /\ chunk_no = Len(Chunks)
    /\ zipped_files' = Zip(cpt_ids, xml_bytes)
    /\ dl_pc' = "returned"
    /\ UNCHANGED <<cpt_ids, chunk_no, in_flight, started, finished, xml_bytes,
                   deregistered_ids, dl_error, pipeVars, fetchVars, viewVars, classVars,
                   wizardVars>>

NextDownload ==
    \/ StartChunk
    \/ \E id \in in_flight : RequestCompletes(id)
    \/ \E id \in in_flight : RequestRaises(id)
    \/ ChunkReturns
    \/ ChunkEncodeRaises
    \/ DownloadReturns

SpecDownload == InitDownload /\ [][NextDownload]_vars

RECURSIVE Concat(_)
Concat(ss) == IF ss = <<>> THEN <<>> ELSE Head(ss) \o Concat(Tail(ss))

\* the chunk a position of the identifier list belongs to
ChunkIndex(i) == ((i - 1) \div MAX_AMOUNT_OF_CPTS) + 1

\* C20: during a download at most MAX_AMOUNT_OF_CPTS requests are in flight:
\* the identifiers are split into consecutive chunks of at most 15, all but
\* the last of exactly 15, whose concatenation is the identifier list, and no
\* request of a chunk has started unless every request of the chunks before
\* it has completed.
C20_BoundedRequestsInFlight ==
    /\ Cardinality(in_flight) <= MAX_AMOUNT_OF_CPTS
    /\ \A k \in 1..Len(Chunks) :
          /\ Len(Chunks[k]) <= MAX_AMOUNT_OF_CPTS
          /\ k < Len(Chunks) => Len(Chunks[k]) = MAX_AMOUNT_OF_CPTS
    /\ Concat(Chunks) = cpt_ids
    /\ started = SubSeq(cpt_ids, 1, Len(started))
    /\ \A j \in 1..Len(started) : \A i \in 1..Len(cpt_ids) :
          ChunkIndex(i) < ChunkIndex(j) => cpt_ids[i] \in finished

\* the second chunk of a download of more than 15 identifiers is in flight
C20_Witness ==
    /\ Len(cpt_ids) > MAX_AMOUNT_OF_CPTS
    /\ chunk_no = 2
    /\ in_flight # {}
    /\ Cardinality(finished) = MAX_AMOUNT_OF_CPTS

\* C21: a download fails only when a request fails, never because a record
\* of the selection is de-registered; when it returns, the archive holds
\* under every registered identifier the payload fetched for that identifier
\* and no entry for a de-registered one.
C21_DownloadOmitsDeregistered ==
    /\ dl_pc = "failed" => dl_error = "ClientResponseError"
    /\ dl_pc = "returned" =>
          \A i \in 1..Len(cpt_ids) :
             IF cpt_ids[i] \in deregistered_ids
             THEN cpt_ids[i] \notin DOMAIN zipped_files
             ELSE /\ cpt_ids[i] \in DOMAIN zipped_files
                  /\ zipped_files[cpt_ids[i]] = encode(Content(cpt_ids[i], FALSE))

\* C22: a converted document holds, for every cone geometry tag its
\* conePenetrometer node carries, the value of that tag in the header field of
\* the tag, and None for a tag the node does not carry; a tag the node does not
\* carry never makes the conversion fail.
C22_ConeGeometryHeaders ==
    /\ ConvertedOk =>
          \A i \in 1..Len(ConeTags) :
             cpt_dict.headers[ConeField(ConeTags[i])] =
                IF ConeTags[i] \in doc.conePenetrometer.tags
                THEN FloatOf(doc.conePenetrometer.value[ConeTags[i]])
                ELSE None
    /\ (Converted /\ cpt_dict.status = "raise") => cpt_dict.arg \notin KeySet(ConeTags)


---------------------------------------------------------------------------
(* Step 1 of the wizard: Parametrization.step_1, validate_step_1,          *)
(* Controller.retrieve_cpts_from_bro, Controller.view_locations_step_1     *)
(*                                                                         *)
(* A coordinate is an integer standing for a float; a point is             *)
(* <<lat, lon>>.  A Python list or tuple is [py |-> kind, items |-> seq]; a *)
(* dict is a function of its keys; a JSON array is a sequence.             *)

PyList(items) == [py |-> "list", items |-> items]
PyTuple(items) == [py |-> "tuple", items |-> items]

\* json.dumps(filtered_cpts): lists and tuples both become arrays
json_dumps(filtered_cpts) ==
    [cpt_ids |-> filtered_cpts.cpt_ids.items,
     selected_polygon_points |->
        [i \in 1..Len(filtered_cpts.selected_polygon_points.items) |->
            filtered_cpts.selected_polygon_points.items[i].items]]

\* json.loads(text): every array becomes a list
json_loads(text) ==
    [cpt_ids |-> PyList(text.cpt_ids),
     selected_polygon_points |->
        PyList([i \in 1..Len(text.selected_polygon_points) |->
                   PyList(text.selected_polygon_points[i])])]

\* the polygons a user draws: a square, the triangle that is its lower left
\* half, and a small triangle away from every CPT
Polygons ==
    { << <<0, 0>>, <<4, 0>>, <<4, 4>>, <<0, 4>> >>,
      << <<0, 0>>, <<4, 0>>, <<0, 4>> >>,
      << <<5, 5>>, <<7, 5>>, <<5, 7>> >> }

\* the CPTs of the registry, in the order the registry lists them
RegistryCPTs ==
    << [bro_id |-> "CPT000000000001", lat |-> 1, lon |-> 1],
       [bro_id |-> "CPT000000000002", lat |-> 3, lon |-> 3] >>

RECURSIVE MinOf(_)
MinOf(xs) == IF Len(xs) = 1 THEN xs[1] ELSE Min(xs[1], MinOf(Tail(xs)))

RECURSIVE MaxOf(_)
MaxOf(xs) == IF Len(xs) = 1 THEN xs[1] ELSE -Min(-xs[1], -MaxOf(Tail(xs)))

\* Envelope(Point(min lat, min lon), Point(max lat, max lon))
get_envelope_from_polygon(polygon) ==
    LET latitudes == [i \in 1..Len(polygon) |-> polygon[i][1]]
        longitudes == [i \in 1..Len(polygon) |-> polygon[i][2]]
    IN  [lower_corner |-> <<MinOf(latitudes), MinOf(longitudes)>>,
         upper_corner |-> <<MaxOf(latitudes), MaxOf(longitudes)>>]

\* the CPTs of the registry that lie in the envelope
RECURSIVE get_cpt_characteristics(_, _, _)
get_cpt_characteristics(held, envelope, i) ==
    IF i > Len(RegistryCPTs) THEN <<>>
    ELSE (IF /\ RegistryCPTs[i] \in held
             /\ envelope.lower_corner[1] <= RegistryCPTs[i].lat
             /\ RegistryCPTs[i].lat <= envelope.upper_corner[1]
             /\ envelope.lower_corner[2] <= RegistryCPTs[i].lon
             /\ RegistryCPTs[i].lon <= envelope.upper_corner[2]
          THEN <<RegistryCPTs[i]>> ELSE <<>>)
         \o get_cpt_characteristics(held, envelope, i + 1)

\* on which side of the edge from a to b the point p lies
Cross(a, b, p) == (b[1] - a[1]) * (p[2] - a[2]) - (b[2] - a[2]) * (p[1] - a[1])

\* _p.within(polygon) for a convex polygon: p lies strictly on the same side
\* of every edge
Within(p, polygon) ==
    LET n == Len(polygon)
        side(i) == Cross(polygon[i], polygon[(i % n) + 1], p)
    IN  \/ \A i \in 1..n : side(i) > 0
        \/ \A i \in 1..n : side(i) < 0

\* the entries of the CPTs that lie within the polygon, in order
RECURSIVE filter_available_cpts(_, _, _)
filter_available_cpts(polygon, cpts_found, i) ==
    IF i > Len(cpts_found) THEN <<>>
    ELSE (IF Within(<<cpts_found[i].lat, cpts_found[i].lon>>, polygon)
          THEN << [bro_id |-> cpts_found[i].bro_id, lat |-> cpts_found[i].lat,
                   lon |-> cpts_found[i].lon] >>
          ELSE <<>>)
         \o filter_available_cpts(polygon, cpts_found, i + 1)

\* validate_step_1 without the comparison of the polygon points
validate_step_1_without_points(polygon, retrieved) ==
    IF polygon = None THEN "No Polygon has been drawn yet."
    ELSE IF retrieved = None THEN "No CPTs have been retrieved yet."
    ELSE IF json_loads(retrieved).cpt_ids.items = <<>>
         THEN "No CPTs are available. Please draw a larger polygon."
    ELSE ""

\* the message of the UserError validate_step_1 raises, "" when it returns
validate_step_1(polygon, retrieved) ==
    IF polygon = None THEN "No Polygon has been drawn yet."
    ELSE IF retrieved = None THEN "No CPTs have been retrieved yet."
    ELSE IF json_loads(retrieved).cpt_ids.items = <<>>
         THEN "No CPTs are available. Please draw a larger polygon."
    ELSE IF json_loads(retrieved).selected_polygon_points #
               PyList([i \in 1..Len(polygon) |-> PyList(polygon[i])])
         THEN "Press 'Retrieve available CPTs' button first to continue."
    ELSE ""

\* the keys view_locations_step_1 reads from an entry
ViewKeys == {"bro_id", "lat", "lon", "date"}

InitWizard ==
    /\ PipelineIdle
    /\ FetchIdle
    /\ ViewIdle
    /\ ClassIdle
    /\ DownloadIdle
    /\ geo_polygon = None
    /\ retrieved_cpts = None
    /\ bro_cpts \in SUBSET KeySet(RegistryCPTs)
    /\ step = 1
    /\ wiz_event = ""
    /\ wiz_error = ""
    /\ filtered_cpt_data = <<>>
    /\ map_points = <<>>

\* the user draws or redraws the polygon of step 1
DrawPolygon ==
    /\ step = 1
    /\ geo_polygon' \in Polygons \ {geo_polygon}
    /\ wiz_event' = "draw"
    /\ wiz_error' = ""
    /\ UNCHANGED <<retrieved_cpts, bro_cpts, step, filtered_cpt_data, map_points, pipeVars,
                   fetchVars, viewVars, classVars, downloadVars>>

\* the user removes the polygon
ClearPolygon ==
    /\ step = 1
    /\ geo_polygon # None
    /\ geo_polygon' = None
    /\ wiz_event' = "draw"
    /\ wiz_error' = ""
    /\ UNCHANGED <<retrieved_cpts, bro_cpts, step, filtered_cpt_data, map_points, pipeVars,
                   fetchVars, viewVars, classVars, downloadVars>>

\* retrieve_cpts_from_bro with the registry answering
RetrieveCpts ==
    /\ step = 1
    /\ wiz_event' = "retrieve"
    /\ IF geo_polygon = None
       THEN /\ wiz_error' = "No Polygon has been drawn yet, draw a polygon first."
            /\ UNCHANGED <<retrieved_cpts, filtered_cpt_data>>
       ELSE /\ filtered_cpt_data' =
                  filter_available_cpts(geo_polygon,
                      get_cpt_characteristics(bro_cpts,
                          get_envelope_from_polygon(geo_polygon), 1), 1)
            /\ IF filtered_cpt_data' = <<>>
               THEN /\ wiz_error' = "No CPTs are available in the selected area."
                    /\ UNCHANGED retrieved_cpts
               ELSE /\ wiz_error' = ""
                    /\ retrieved_cpts' =
                          json_dumps([cpt_ids |-> PyList(filtered_cpt_data'),
                                      selected_polygon_points |->
                                         PyList([i \in 1..Len(geo_polygon) |->
                                                    PyTuple(geo_polygon[i])])])
    /\ UNCHANGED <<geo_polygon, bro_cpts, step, map_points, pipeVars, fetchVars, viewVars,
                   classVars, downloadVars>>

\* retrieve_cpts_from_bro with get_cpt_characteristics raising ValueError or
\* ReadTimeout, which is raised on as a UserError
RetrieveCptsApiRaises ==
    /\ step = 1
    /\ geo_polygon # None
    /\ wiz_event' = "retrieve"
    /\ wiz_error' \in {"BRO REST API response: ValueError", "ReadTimeout"}
    /\ UNCHANGED <<geo_polygon, retrieved_cpts, bro_cpts, step, filtered_cpt_data,
                   map_points, pipeVars, fetchVars, viewVars, classVars, downloadVars>>

\* the user presses next: on_next=validate_step_1
PressNext ==
    /\ step = 1
    /\ wiz_event' = "next"
    /\ wiz_error' = validate_step_1(geo_polygon, retrieved_cpts)
    /\ step' = IF wiz_error' = "" THEN 2 ELSE 1
    /\ UNCHANGED <<geo_polygon, retrieved_cpts, bro_cpts, filtered_cpt_data, map_points,
                   pipeVars, fetchVars, viewVars, classVars, downloadVars>>

\* the user goes back from step 2
PressPrevious ==
    /\ step = 2
    /\ step' = 1
    /\ wiz_event' = "previous"
    /\ wiz_error' = ""
    /\ UNCHANGED <<geo_polygon, retrieved_cpts, bro_cpts, filtered_cpt_data, map_points,
                   pipeVars, fetchVars, viewVars, classVars, downloadVars>>

\* view_locations_step_1 (shown in both steps): one MapPoint per stored entry;
\* reading a key an entry lacks raises KeyError
ViewLocations ==
    /\ step \in {1, 2}
    /\ wiz_event' = "view"
    /\ IF retrieved_cpts = None
       THEN wiz_error' = "" /\ map_points' = <<>>
       ELSE LET filtered_cpts == json_loads(retrieved_cpts).cpt_ids.items
            IN  IF \E i \in 1..Len(filtered_cpts) :
                      ~(ViewKeys \subseteq DOMAIN filtered_cpts[i])
                THEN wiz_error' = "KeyError" /\ map_points' = <<>>
                ELSE /\ wiz_error' = ""
                     /\ map_points' =
                           [i \in 1..Len(filtered_cpts) |->
                               [lat |-> filtered_cpts[i]["lat"],
                                lon |-> filtered_cpts[i]["lon"],
                                title |-> filtered_cpts[i]["bro_id"],
                                description |-> filtered_cpts[i]["date"],
                                identifier |-> filtered_cpts[i]["bro_id"]]]
    /\ UNCHANGED <<geo_polygon, retrieved_cpts, bro_cpts, step, filtered_cpt_data, pipeVars,
                   fetchVars, viewVars, classVars, downloadVars>>

NextWizard ==
    \/ DrawPolygon
    \/ ClearPolygon
    \/ RetrieveCpts
    \/ RetrieveCptsApiRaises
    \/ PressNext
    \/ PressPrevious
    \/ ViewLocations

SpecWizard == InitWizard /\ [][NextWizard]_vars

\* step 2 is shown with a polygon drawn and a stored retrieval of at least one
\* CPT whose polygon points are those of the drawn polygon
LeftStep1Validly ==
    step = 2 =>
        /\ geo_polygon # None
        /\ retrieved_cpts # None
        /\ json_loads(retrieved_cpts).cpt_ids.items # <<>>
        /\ json_loads(retrieved_cpts).selected_polygon_points =
              PyList([i \in 1..Len(geo_polygon) |-> PyList(geo_polygon[i])])

\* a retrieval that found no CPT raised an error and kept the stored retrieval
EmptyRetrievalKeepsStored ==
    (wiz_event' = "retrieve" /\ filtered_cpt_data' = <<>>) =>
        wiz_error' # "" /\ retrieved_cpts' = retrieved_cpts

\* C23: whatever the user draws, retrieves and presses, the wizard leaves
\* step 1 only with a polygon drawn and a stored retrieval of at least one CPT
\* that was made for the points of the drawn polygon; a retrieval that finds
\* no CPT raises an error and leaves the stored retrieval as it was.
C23_LeavesStep1OnlyWhenRetrieved ==
    []LeftStep1Validly /\ [][EmptyRetrievalKeepsStored]_vars

\* step 2 is reached for the triangle, whose envelope held a CPT that the
\* polygon filter dropped, after a retrieval for another polygon
C23_Witness ==
    /\ step = 2
    /\ Len(geo_polygon) = 3
    /\ Len(filtered_cpt_data) = 1
    /\ Cardinality(bro_cpts) = 2

\* C24: every stored entry holds the keys the Locations view reads, and the
\* view of a stored retrieval makes one point per entry without an error.
C24_StoredEntriesServeTheView ==
    retrieved_cpts # None =>
        /\ \A i \in 1..Len(retrieved_cpts.cpt_ids) :
              ViewKeys \subseteq DOMAIN retrieved_cpts.cpt_ids[i]
        /\ wiz_event = "view" =>
              wiz_error = "" /\ Len(map_points) = Len(retrieved_cpts.cpt_ids)

====
